---------------------------- MODULE Spec2Model ----------------------------
(***************************************************************************)
(* Model of the curvature comb canvas plugin                               *)
(* (plugins/canvas/curvature/curvature_comb_plugin/plugin.py) and of the   *)
(* parameter handling it inherits from BaseCanvasPlugin.                   *)
(*                                                                         *)
(* Numbers.  Python floats are modelled as fixed-point numbers: the        *)
(* integer v stands for the real v / Unit.  Sums and differences are       *)
(* exact; a product, a quotient and a square root are rounded towards      *)
(* zero to a multiple of 1 / Unit, the way a float operation rounds to the *)
(* nearest float.  A threshold of 1e-10 lies below the resolution, so for  *)
(* a non-negative fixed-point value x the test x < 1e-10 is x < 1.         *)
(* A float operation whose result lies beyond FloatMax gives an infinity,   *)
(* and inf - inf, 0 * inf and inf / inf give NaN, as IEEE 754 arithmetic   *)
(* does; a comparison with NaN is false.                                   *)
(***************************************************************************)
EXTENDS Integers, Sequences, FiniteSets, TLC

(***************************************************************************)
(* State.                                                                  *)
(***************************************************************************)
VARIABLES
    parameters,       \* self._parameters
    layer_data,       \* the layer_data argument of the draw_below call
    pc,               \* where draw_below stands: "idle", "shape", "scan",
                      \* "range", "draw", "done" (returned), "raised"
    si,               \* the loop index over shapes, from 1
    nodes,            \* the node list _collect_curve_data scans
    i,                \* the scan index of _collect_curve_data, from 0
    curve_data_list,  \* the curve data collected for the current path
    visited,          \* the scan indices examined for the current path
    treated,          \* the scan indices where a segment was sampled
    min_curvature,    \* the range of the current path
    max_curvature,
    ci,               \* the index of the next curve to draw, from 1
    ctx,              \* the draw surface: the depth of saved states, the
                      \* polygons filled and the calls made, in order
    kin,              \* a direct call of a kinematics method: its name,
                      \* its arguments and what it returned
    history           \* the calls of draw_below that are over: the
                      \* layer_data and parameters of each and the calls
                      \* it made on ctx

vars == << parameters, layer_data, pc, si, nodes, i, curve_data_list,
           visited, treated, min_curvature, max_curvature, ci, ctx, kin,
           history >>

scan_vars == << nodes, i, curve_data_list, visited, treated >>

range_vars == << min_curvature, max_curvature, ci >>

(***************************************************************************)
(* Bounds of the model.                                                    *)
(***************************************************************************)
\* resolution of the fixed-point numbers: 1 / Unit
Unit == 100
\* longest shapes list of a layer_data
MaxShapes == 2
\* longest enumerated node list
MaxNodes == 5
\* the largest finite float, sys.float_info.max, as a fixed-point number:
\* a result beyond it overflows to an infinity
FloatMax == 20000000
\* the calls of draw_below in a behaviour of SpecCalls
MaxCalls == 3
\* the largest factor the quarter circle of SpecQuarter is scaled by
MaxFactor == 30

(***************************************************************************)
(* Program constants.                                                      *)
(***************************************************************************)
SAMPLES_PER_CURVE == 50
OPACITY == "0.4"
\* "Skip extreme values": the ceiling on |tooth_length|
MaxToothLength == 10000
\* the clamp of _cubic_bezier_curvature, max_curvature = 1.0
MaxCurvature == 1

(***************************************************************************)
(* Fixed-point arithmetic.                                                 *)
(***************************************************************************)
Abs[a \in Int] == IF a < 0 THEN -a ELSE a

Sign[a \in Int] == IF a > 0 THEN 1 ELSE IF a < 0 THEN -1 ELSE 0

Min2[a \in Int, b \in Int] == IF a < b THEN a ELSE b

Max2[a \in Int, b \in Int] == IF a > b THEN a ELSE b

\* n / d for d > 0, rounded towards zero
Trunc[n \in Int, d \in Int] == IF n >= 0 THEN n \div d ELSE -((-n) \div d)

\* the fixed-point number of the integer n
Fx(n) == n * Unit

\* the non-finite floats
PosInf == FloatMax + 1

NegInf == -PosInf

NaN == FloatMax + 2

IsInf[a \in Int] == a = PosInf \/ a = NegInf

IsFinite[a \in Int] == -FloatMax <= a /\ a <= FloatMax

\* the float of an exact result v
Overflow[v \in Int] ==
    IF v > FloatMax THEN PosInf ELSE IF v < -FloatMax THEN NegInf ELSE v

\* the infinity a product or quotient of operands a, b of these signs has
SignedInf[a \in Int, b \in Int] == IF (a > 0) = (b > 0) THEN PosInf ELSE NegInf

\* -a
Neg[a \in Int] == IF a = NaN THEN NaN ELSE -a

\* abs(a)
FAbs[a \in Int] == IF a = NaN THEN NaN ELSE Abs[a]

\* a + b
Add[a \in Int, b \in Int] ==
    IF a = NaN \/ b = NaN THEN NaN
    ELSE IF IsInf[a] THEN (IF IsInf[b] /\ b # a THEN NaN ELSE a)
    ELSE IF IsInf[b] THEN b
    ELSE Overflow[a + b]

\* a - b
Sub[a \in Int, b \in Int] == Add[a, Neg[b]]

\* a * b; the product of two finite operands is formed only when it fits
Mul[a \in Int, b \in Int] ==
    IF a = NaN \/ b = NaN THEN NaN
    ELSE IF IsInf[a] \/ IsInf[b]
      THEN (IF a = 0 \/ b = 0 THEN NaN ELSE SignedInf[a, b])
    ELSE IF a = 0 \/ b = 0 THEN 0
    ELSE IF Abs[a] > ((FloatMax + 1) * Unit) \div Abs[b] THEN SignedInf[a, b]
    ELSE Overflow[Trunc[a * b, Unit]]

\* a / b, b # 0
Div[a \in Int, b \in Int] ==
    IF a = NaN \/ b = NaN THEN NaN
    ELSE IF IsInf[b] THEN (IF IsInf[a] THEN NaN ELSE 0)
    ELSE IF IsInf[a] THEN SignedInf[a, b]
    ELSE IF b > 0 THEN Overflow[Trunc[a * Unit, b]]
    ELSE Overflow[Trunc[(-a) * Unit, -b]]

\* a < b and a > b: false when an operand is NaN
Lt[a \in Int, b \in Int] == a # NaN /\ b # NaN /\ a < b

Gt[a \in Int, b \in Int] == a # NaN /\ b # NaN /\ a > b

\* one step of the digit-by-digit square root: r with the bit added when
\* the square stays at most n (46340 is the largest root of a 32 bit n)
SqrtBit[n \in Int, r \in Int, bit \in Int] ==
    IF r + bit <= 46340 /\ (r + bit) * (r + bit) <= n THEN r + bit ELSE r

\* the largest integer whose square is at most n, 0 <= n < 2^31
ISqrt[n \in Int] ==
    LET r15 == SqrtBit[n, 0, 32768]
        r14 == SqrtBit[n, r15, 16384]
        r13 == SqrtBit[n, r14, 8192]
        r12 == SqrtBit[n, r13, 4096]
        r11 == SqrtBit[n, r12, 2048]
        r10 == SqrtBit[n, r11, 1024]
        r9  == SqrtBit[n, r10, 512]
        r8  == SqrtBit[n, r9, 256]
        r7  == SqrtBit[n, r8, 128]
        r6  == SqrtBit[n, r7, 64]
        r5  == SqrtBit[n, r6, 32]
        r4  == SqrtBit[n, r5, 16]
        r3  == SqrtBit[n, r4, 8]
        r2  == SqrtBit[n, r3, 4]
        r1  == SqrtBit[n, r2, 2]
    IN  SqrtBit[n, r1, 1]

\* math.sqrt of a float a >= 0
Sqrt[a \in Int] == IF IsFinite[a] THEN ISqrt[a * Unit] ELSE a

Range(s) == { s[k] : k \in 1..Len(s) }

\* min() and max() of a non-empty list: the first item, replaced by each
\* later item that compares below (above) the one held.  No item compares
\* below or above a NaN and a NaN compares below or above no item, so a
\* first item NaN is held to the end, and any other NaN is passed over.
Ordered(s) == { x \in Range(s) : x # NaN }

SeqMin(s) ==
    IF s[1] = NaN THEN NaN
    ELSE CHOOSE m \in Ordered(s) : \A x \in Ordered(s) : m <= x

SeqMax(s) ==
    IF s[1] = NaN THEN NaN
    ELSE CHOOSE m \in Ordered(s) : \A x \in Ordered(s) : m >= x

RECURSIVE Flatten(_)
Flatten(ss) == IF ss = <<>> THEN <<>> ELSE Head(ss) \o Flatten(Tail(ss))

(***************************************************************************)
(* Bezier kinematics.  A control point is a pair <<x, y>> of fixed-point   *)
(* numbers, t a fixed-point number.                                        *)
(***************************************************************************)
\* t = max(0.0, min(1.0, t))
ClampT[t \in Int] == Max2[0, Min2[Fx(1), t]]

\* BezierCoord with the Bernstein weights of P0 and P3 exchanged
BezierCoordReversed(a0, a1, a2, a3, tc) ==
    LET t2  == Mul[tc, tc]
        t3  == Mul[t2, tc]
        mt  == Sub[Fx(1), tc]
        mt2 == Mul[mt, mt]
        mt3 == Mul[mt2, mt]
    IN  Add[Add[Add[Mul[t3, a0],
                    Mul[Mul[Mul[Fx(3), mt2], tc], a1]],
                Mul[Mul[Mul[Fx(3), mt], t2], a2]],
            Mul[mt3, a3]]

\* one coordinate of _cubic_bezier_point
BezierCoord(a0, a1, a2, a3, tc) ==
    LET t2  == Mul[tc, tc]
        t3  == Mul[t2, tc]
        mt  == Sub[Fx(1), tc]
        mt2 == Mul[mt, mt]
        mt3 == Mul[mt2, mt]
    IN  Add[Add[Add[Mul[mt3, a0],
                    Mul[Mul[Mul[Fx(3), mt2], tc], a1]],
                Mul[Mul[Mul[Fx(3), mt], t2], a2]],
            Mul[t3, a3]]

_cubic_bezier_point(p0, p1, p2, p3, t) ==
    LET tc == ClampT[t]
    IN  << BezierCoord(p0[1], p1[1], p2[1], p3[1], tc),
           BezierCoord(p0[2], p1[2], p2[2], p3[2], tc) >>

\* one coordinate of _cubic_bezier_tangent
TangentCoord(a0, a1, a2, a3, tc) ==
    LET mt  == Sub[Fx(1), tc]
        mt2 == Mul[mt, mt]
        t2  == Mul[tc, tc]
    IN  Add[Add[Mul[Mul[Fx(3), mt2], Sub[a1, a0]],
                Mul[Mul[Mul[Fx(6), mt], tc], Sub[a2, a1]]],
            Mul[Mul[Fx(3), t2], Sub[a3, a2]]]

_cubic_bezier_tangent(p0, p1, p2, p3, t) ==
    LET tc == ClampT[t]
    IN  << TangentCoord(p0[1], p1[1], p2[1], p3[1], tc),
           TangentCoord(p0[2], p1[2], p2[2], p3[2], tc) >>

\* one coordinate of the second derivative; t is not clamped here
SecondCoord(a0, a1, a2, a3, t) ==
    LET mt == Sub[Fx(1), t]
    IN  Add[Mul[Mul[Fx(6), mt], Add[Sub[a2, Mul[Fx(2), a1]], a0]],
            Mul[Mul[Fx(6), t], Add[Sub[a3, Mul[Fx(2), a2]], a1]]]

\* velocity_squared ** 1.5: Python raises OverflowError when the power of
\* a finite number is not finite
Pow15[v \in Int] ==
    IF ~IsFinite[v] THEN [ raises |-> FALSE, value |-> v ]
    ELSE LET power == Mul[v, Sqrt[v]]
         IN  [ raises |-> IsInf[power], value |-> power ]

\* cross_product / (velocity_squared ** 1.5).  The divisor is positive in
\* the code; a divisor of 0 here is a positive number below the resolution,
\* which takes any non-zero dividend beyond FloatMax.
Quotient[cross \in Int, d \in Int] ==
    IF d # 0 THEN Div[cross, d]
    ELSE IF cross = NaN THEN NaN
    ELSE IF cross = 0 THEN 0
    ELSE IF cross > 0 THEN PosInf ELSE NegInf

\* "Clamp to prevent extreme values"
ClampCurvature[curvature \in Int] ==
    IF Gt[FAbs[curvature], Fx(MaxCurvature)]
      THEN (IF Gt[curvature, 0] THEN Fx(MaxCurvature) ELSE -Fx(MaxCurvature))
      ELSE curvature

\* The rest of _cubic_bezier_curvature once the first derivative (dx, dy)
\* and the second (ddx, ddy) are known: whether it has returned 0
\* (velocity_squared < 1e-10, or the except clause), and the curvature
\* cross_product / velocity_squared ** 1.5 when it has not
CurvatureOf[dx \in Int, dy \in Int, ddx \in Int, ddy \in Int] ==
    LET cross_product    == Sub[Mul[dx, ddy], Mul[dy, ddx]]
        velocity_squared == Add[Mul[dx, dx], Mul[dy, dy]]
        power            == Pow15[velocity_squared]
    IN  IF Lt[velocity_squared, 1] \/ power.raises
          THEN [ returned |-> TRUE, curvature |-> 0 ]
          ELSE [ returned |-> FALSE,
                 curvature |-> Quotient[cross_product, power.value] ]

\* _cubic_bezier_curvature up to the clamp
RawCurvature(p0, p1, p2, p3, t) ==
    LET tan == _cubic_bezier_tangent(p0, p1, p2, p3, t)
    IN  CurvatureOf[tan[1], tan[2],
                    SecondCoord(p0[1], p1[1], p2[1], p3[1], t),
                    SecondCoord(p0[2], p1[2], p2[2], p3[2], t)]

\* what CurvatureOf yields
RawResults == [ returned : BOOLEAN, curvature : Int ]

\* the clamp, and the 0 of the early return and of the except clause
ClampRaw[raw \in RawResults] ==
    IF raw.returned THEN 0 ELSE ClampCurvature[raw.curvature]

_cubic_bezier_curvature(p0, p1, p2, p3, t) ==
    ClampRaw[RawCurvature(p0, p1, p2, p3, t)]

(***************************************************************************)
(* Curve sampler.                                                          *)
(***************************************************************************)
\* t = i / (SAMPLES_PER_CURVE - 1) if SAMPLES_PER_CURVE > 1 else 0
SampleT(idx) ==
    IF SAMPLES_PER_CURVE > 1 THEN Div[Fx(idx), Fx(SAMPLES_PER_CURVE - 1)] ELSE 0

\* tangent_length = math.sqrt(tangent[0]**2 + tangent[1]**2)
TangentLength[tangent \in Seq(Int)] ==
    Sqrt[Add[Mul[tangent[1], tangent[1]], Mul[tangent[2], tangent[2]]]]

\* The rest of one pass of the sampling loop once point, curvature, tangent
\* and tangent_length are known: the sample, and whether it is appended (the
\* two "continue" tests on the tangent, the except clause and the isfinite
\* test on the point)
SampleOf[idx \in Int, point \in Seq(Int), curv \in Int, tangent \in Seq(Int), tangent_length \in Int] ==
    LET zero     == tangent[1] = 0 /\ tangent[2] = 0
        \* tangent[0]**2 raises OverflowError when the square of a finite
        \* number is not finite: the except clause skips the sample
        raises   == \E k \in 1..2 : /\ IsFinite[tangent[k]]
                                     /\ IsInf[Mul[tangent[k], tangent[k]]]
        keep     == /\ ~zero
                    /\ ~raises
                    /\ ~Lt[tangent_length, 1]
                    /\ IsFinite[point[1]]
                    /\ IsFinite[point[2]]
        tangent_norm == IF keep THEN << Div[tangent[1], tangent_length],
                                        Div[tangent[2], tangent_length] >>
                        ELSE << 0, 0 >>
    IN  [ keep   |-> keep,
          index  |-> idx,
          point  |-> point,
          perp   |-> << Neg[tangent_norm[2]], tangent_norm[1] >>,
          signed |-> Neg[curv],
          abs    |-> FAbs[curv] ]

\* SampleOf with the tangent_length of the tangent
SampleWith[idx \in Int, point \in Seq(Int), curv \in Int, tangent \in Seq(Int)] ==
    SampleOf[idx, point, curv, tangent, TangentLength[tangent]]

\* one pass of the sampling loop for index idx
SampleAt(p0, p1, p2, p3, idx) ==
    SampleWith[idx,
               _cubic_bezier_point(p0, p1, p2, p3, SampleT(idx)),
               _cubic_bezier_curvature(p0, p1, p2, p3, SampleT(idx)),
               _cubic_bezier_tangent(p0, p1, p2, p3, SampleT(idx))]

\* _sample_cubic_curve returning a segment of one sample also
SampleCurveKeepsOne(p0, p1, p2, p3) ==
    LET all     == [ k \in 1..SAMPLES_PER_CURVE |->
                       SampleAt(p0, p1, p2, p3, k - 1) ]
        samples == SelectSeq(all, LAMBDA s : s.keep)
    IN  IF Len(samples) >= 1 THEN [ valid |-> TRUE, samples |-> samples ]
        ELSE [ valid |-> FALSE, samples |-> <<>> ]

\* the curve_data of one segment: valid is FALSE for the None result
_sample_cubic_curve(p0, p1, p2, p3) ==
    LET all     == [ k \in 1..SAMPLES_PER_CURVE |->
                       SampleAt(p0, p1, p2, p3, k - 1) ]
        samples == SelectSeq(all, LAMBDA s : s.keep)
    IN  IF Len(samples) >= 2 THEN [ valid |-> TRUE, samples |-> samples ]
        ELSE [ valid |-> FALSE, samples |-> <<>> ]

(***************************************************************************)
(* Input data.  A node is what one entry of a node list can be: a record  *)
(* (dict) or not; with a type key or without (type = "absent"); with     *)
(* numeric x and y ("num"), without them ("missing"), or with a value     *)
(* float() rejects ("text").  x and y hold the floats float() returns.    *)
(***************************************************************************)
\* a node with whole coordinates
Node(type, x, y) == [ isdict |-> TRUE, type |-> type, xy |-> "num",
                      x |-> Fx(x), y |-> Fx(y) ]

\* a node whose coordinates are hx / 2 and hy / 2
HalfNode(type, hx, hy) ==
    [ isdict |-> TRUE, type |-> type, xy |-> "num",
      x |-> hx * (Unit \div 2), y |-> hy * (Unit \div 2) ]

NotDictNode == [ isdict |-> FALSE, type |-> "absent", xy |-> "missing",
                 x |-> 0, y |-> 0 ]

NoXYNode(type) == [ isdict |-> TRUE, type |-> type, xy |-> "missing",
                    x |-> 0, y |-> 0 ]

TextXYNode(type) == [ isdict |-> TRUE, type |-> type, xy |-> "text",
                      x |-> 0, y |-> 0 ]

\* A nodes value: a list, an absent key, or a non-zero number (a value
\* that is true and has no len()).
NodeList(items) == [ kind |-> "list", items |-> items ]

AbsentNodes == [ kind |-> "absent", items |-> <<>> ]

NumberNodes == [ kind |-> "number", items |-> <<>> ]

\* A shape: None, a record without a Path key (a component), or a record
\* with a Path key whose value is a record or is not.
PathShape(list, closed) ==
    [ kind |-> "path", top_nodes |-> AbsentNodes, path_isdict |-> TRUE,
      path_nodes |-> list, closed |-> closed ]

TopNodesShape(list) ==
    [ kind |-> "path", top_nodes |-> list, path_isdict |-> TRUE,
      path_nodes |-> AbsentNodes, closed |-> TRUE ]

PathNotDictShape ==
    [ kind |-> "path", top_nodes |-> AbsentNodes, path_isdict |-> FALSE,
      path_nodes |-> AbsentNodes, closed |-> FALSE ]

ComponentShape ==
    [ kind |-> "component", top_nodes |-> AbsentNodes, path_isdict |-> FALSE,
      path_nodes |-> AbsentNodes, closed |-> FALSE ]

NoneShape ==
    [ kind |-> "none", top_nodes |-> AbsentNodes, path_isdict |-> FALSE,
      path_nodes |-> AbsentNodes, closed |-> FALSE ]

\* A layer_data: None, or a record with a shapes list (possibly empty).
Layer(shapes) == [ kind |-> "dict", shapes |-> shapes ]

NoneLayer == [ kind |-> "none", shapes |-> <<>> ]

(***************************************************************************)
(* The node lists the draw calls of Spec are given.                        *)
(***************************************************************************)
\* an open quarter turn, curvature between 0.14 and 0.22
QuarterNodes ==
    << Node("c", 0, 0), Node("o", 0, 3), Node("o", 3, 6), Node("cs", 6, 6) >>

\* a closed path of two cubics, the second one wrapping to node 0
ClosedNodes ==
    << Node("c", 0, 0), Node("o", 0, 8), Node("o", 8, 8), Node("c", 8, 0),
       Node("o", 6, 0), Node("o", 6, 6) >>

\* a straight cubic with evenly spaced control points
LineNodes ==
    << Node("l", 0, 0), Node("o", 2, 0), Node("o", 4, 0), Node("ls", 6, 0) >>

\* the largest whole coordinate that is a finite float
HugeCoord == FloatMax \div Unit

\* a straight path along an axis at the largest whole coordinate
FarNodes ==
    << Node("c", HugeCoord, 0), Node("o", HugeCoord, 1),
       Node("o", HugeCoord, 2), Node("c", HugeCoord, 3) >>

\* a hook whose end saturates the curvature clamp
HookNodes ==
    << Node("c", 0, 0), Node("o", 6, 0), Node("o", 6, 6), Node("c", 5, 6) >>

\* a tight turn, saturated in its middle
TightNodes ==
    << Node("c", 0, 0), Node("o", 1, 0), Node("o", 1, 1), Node("c", 0, 1) >>

\* a turn of half a unit, saturated at every sample
TinyNodes ==
    << HalfNode("c", 0, 0), HalfNode("o", 1, 0), HalfNode("o", 1, 1),
       HalfNode("c", 0, 1) >>

\* a cubic whose four control points coincide, and a proper one after it
PointNodes ==
    << Node("c", 1, 1), Node("o", 1, 1), Node("o", 1, 1), Node("c", 1, 1),
       Node("o", 1, 4), Node("o", 4, 7), Node("c", 7, 7) >>

\* a cubic so long that the square of its tangent is finite at t = 0 only,
\* and a proper one after it
LoneNodes ==
    << Node("c", 0, 0), Node("o", 1, 0), Node("o", 5000, 5000),
       Node("c", 0, 5000), Node("o", 0, 5003), Node("o", 3, 5006),
       Node("c", 6, 5006) >>

\* the nodes of an open path whose last two nodes and first two nodes form
\* the pattern of a cubic
OpenWrapNodes ==
    << Node("o", 3, 6), Node("c", 6, 6), Node("c", 0, 0), Node("o", 0, 3) >>

\* a node that is no record, a node without x and y and a node whose x
\* and y are no numbers, before a cubic
BrokenNodes ==
    << NotDictNode, NoXYNode("c"), Node("o", 0, 1), Node("o", 0, 1),
       TextXYNode("c"), Node("o", 0, 2), Node("o", 0, 4),
       Node("c", 0, 0), Node("o", 0, 4), Node("o", 4, 8), Node("c", 8, 8) >>

\* the shapes of a layer_data with several shapes
ShapePool ==
    { PathShape(NodeList(QuarterNodes), FALSE),
      PathShape(NodeList(ClosedNodes), TRUE),
      PathShape(NodeList(HookNodes), FALSE),
      PathShape(NumberNodes, FALSE),
      ComponentShape }

\* the shapes of a layer_data with a single shape
SingleShapePool ==
    { PathShape(NodeList(LineNodes), FALSE),
      PathShape(NodeList(TightNodes), FALSE),
      PathShape(NodeList(TinyNodes), FALSE),
      PathShape(NodeList(PointNodes), FALSE),
      PathShape(NodeList(LoneNodes), FALSE),
      PathShape(NodeList(OpenWrapNodes), FALSE),
      PathShape(NodeList(BrokenNodes), FALSE),
      TopNodesShape(NodeList(QuarterNodes)),
      PathShape(AbsentNodes, FALSE),
      PathNotDictShape,
      NoneShape }

\* the sequences over S of length at most n
SeqsUpTo(S, n) == UNION { [ 1..k -> S ] : k \in 0..n }

LayerPool ==
    { NoneLayer } \cup { Layer(s) : s \in SeqsUpTo(ShapePool, MaxShapes) }
      \cup { Layer(<< s >>) : s \in SingleShapePool }

\* the layer_data of the calls of SpecCalls: a path, and a path before a
\* shape that makes the call raise
CallLayerPool ==
    { Layer(<< PathShape(NodeList(QuarterNodes), FALSE) >>),
      Layer(<< PathShape(NodeList(TightNodes), FALSE), NoneShape >>) }

(***************************************************************************)
(* The node lists of SpecScan: every list of 2 to MaxNodes nodes over the  *)
(* node kinds below, the node at index k placed at ScanX(k), ScanY(k).     *)
(***************************************************************************)
ScanX(k) == (k * 3) % 7

ScanY(k) == (k * k) % 5

ScanKinds == { "c", "l", "o", "absent", "text" }

ScanNode(kind, k) ==
    IF kind = "text" THEN TextXYNode("o")
    ELSE Node(kind, ScanX(k), ScanY(k))

ScanLists ==
    { [ k \in 1..Len(ks) |-> ScanNode(ks[k], k - 1) ] :
        ks \in { s \in SeqsUpTo(ScanKinds, MaxNodes) : Len(s) >= 2 } }

ScanLayerPool ==
    { Layer(<< PathShape(NodeList(ns), TRUE) >>) : ns \in ScanLists }
      \cup { Layer(<< PathShape(NodeList(ClosedNodes), TRUE) >>) }

(***************************************************************************)
(* The node lists of SpecMalformed: every list of 2 to MaxNodes nodes over *)
(* the kinds below: an on-curve node, an off-curve node, a node that is no *)
(* record, an on-curve node without x and y, and an off-curve node whose x *)
(* and y are no numbers.                                                   *)
(***************************************************************************)
MalformedKinds == { "c", "o", "nodict", "noxy", "text" }

MalformedNode(kind, k) ==
    IF kind = "nodict" THEN NotDictNode
    ELSE IF kind = "noxy" THEN NoXYNode("c")
    ELSE IF kind = "text" THEN TextXYNode("o")
    ELSE Node(kind, ScanX(k), ScanY(k))

MalformedLists ==
    { [ k \in 1..Len(ks) |-> MalformedNode(ks[k], k - 1) ] :
        ks \in { s \in SeqsUpTo(MalformedKinds, MaxNodes) : Len(s) >= 2 } }

MalformedLayerPool ==
    { Layer(<< PathShape(NodeList(ns), TRUE) >>) : ns \in MalformedLists }
      \cup { Layer(<< PathShape(NodeList(BrokenNodes), FALSE) >>) }

(***************************************************************************)
(* Parameters (BaseCanvasPlugin).  A parameter value is an integer.        *)
(***************************************************************************)
\* get_ui_elements: the two sliders
UiElements ==
    [ scale_factor |-> [ min |-> 0, max |-> 100, default |-> 50 ],
      exponent     |-> [ min |-> 1, max |-> 5, default |-> 1 ] ]

ParamIds == { "scale_factor", "exponent" }

\* what localStorage holds for a parameter: nothing, or a number
NoStored == [ present |-> FALSE, value |-> 0 ]

Stored(v) == [ present |-> TRUE, value |-> v ]

StoredPool ==
    [ scale_factor |-> { NoStored, Stored(150) },
      exponent     |-> { NoStored, Stored(2), Stored(-4) } ]

\* the values set_parameter is called with
SetPool ==
    [ scale_factor |-> { 32, 33, -49 },
      exponent     |-> { -1 } ]

\* _load_parameter_from_storage: found is FALSE for the None result
_load_parameter_from_storage(stored, element_def) ==
    IF stored.present
      THEN LET value == stored.value
               low   == IF value < element_def.min THEN element_def.min
                        ELSE value
               high  == IF low > element_def.max THEN element_def.max
                        ELSE low
           IN  [ found |-> TRUE, value |-> high ]
      ELSE [ found |-> FALSE, value |-> 0 ]

\* BaseCanvasPlugin.__init__ for one parameter
InitParameter(stored, element_def) ==
    LET loaded_value == _load_parameter_from_storage(stored, element_def)
    IN  IF loaded_value.found THEN loaded_value.value
        ELSE element_def.default

\* SCALE_FACTOR with a step of 40 for each unit of the slider
ScaleFactorSmallStep(params) == Fx(2000 + params.scale_factor * 40)

\* the SCALE_FACTOR property
SCALE_FACTOR(params) == Fx(2000 + params.scale_factor * 250)

(***************************************************************************)
(* Segment extractor.                                                      *)
(***************************************************************************)
OnCurveTypes == { "c", "cs", "l", "ls" }

\* node_type = node.get('type', 'l')
StartType(node) == IF node.type = "absent" THEN "l" ELSE node.type

\* next3.get('type') in ('c', 'cs', 'l', 'ls')
EndIsOnCurve(node) == node.type \in OnCurveTypes

\* nodes[(i + k) % len(nodes)], the index counted from 0
NodeAt(ns, idx, k) == ns[((idx + k) % Len(ns)) + 1]

\* "Check if this is a cubic bezier"
IsCubicAt(ns, idx) ==
    /\ StartType(NodeAt(ns, idx, 0)) \in OnCurveTypes
    /\ NodeAt(ns, idx, 1).type = "o"
    /\ NodeAt(ns, idx, 2).type = "o"
    /\ EndIsOnCurve(NodeAt(ns, idx, 3))

\* (float(node['x']), float(node['y']))
NodePoint(node) == << node.x, node.y >>

\* ScanIteration leaving the loop at a node that is no record, has no x
\* and y, or has a coordinate that is no number
ScanIterationBreaking(ns, idx) ==
    LET four == { NodeAt(ns, idx, k) : k \in 0..3 }
        skip == [ step |-> 1, sampled |-> FALSE, points |-> <<>> ]
        stop == [ step |-> Len(ns) - idx, sampled |-> FALSE, points |-> <<>> ]
    IN  IF ~NodeAt(ns, idx, 0).isdict THEN stop
        ELSE IF \E n \in four : ~n.isdict THEN stop
        ELSE IF ~IsCubicAt(ns, idx) THEN skip
        ELSE IF \E n \in four : n.xy = "missing" THEN stop
        ELSE IF \E n \in four : n.xy = "text" THEN stop
        ELSE [ step |-> 3, sampled |-> TRUE,
               points |-> << NodePoint(NodeAt(ns, idx, 0)),
                             NodePoint(NodeAt(ns, idx, 1)),
                             NodePoint(NodeAt(ns, idx, 2)),
                             NodePoint(NodeAt(ns, idx, 3)) >> ]

\* ScanIteration with the except clause leaving the index where it is
ScanIterationStuck(ns, idx) ==
    LET four == { NodeAt(ns, idx, k) : k \in 0..3 }
        skip == [ step |-> 1, sampled |-> FALSE, points |-> <<>> ]
        stay == [ step |-> 0, sampled |-> FALSE, points |-> <<>> ]
    IN  IF ~NodeAt(ns, idx, 0).isdict THEN skip
        ELSE IF \E n \in four : ~n.isdict THEN skip
        ELSE IF ~IsCubicAt(ns, idx) THEN skip
        ELSE IF \E n \in four : n.xy = "missing" THEN skip
        ELSE IF \E n \in four : n.xy = "text" THEN stay
        ELSE [ step |-> 3, sampled |-> TRUE,
               points |-> << NodePoint(NodeAt(ns, idx, 0)),
                             NodePoint(NodeAt(ns, idx, 1)),
                             NodePoint(NodeAt(ns, idx, 2)),
                             NodePoint(NodeAt(ns, idx, 3)) >> ]

\* One iteration of the while loop of _collect_curve_data at index idx:
\* the step the index advances by, and whether _sample_cubic_curve is called and
\* with which control points.
ScanIteration(ns, idx) ==
    LET four == { NodeAt(ns, idx, k) : k \in 0..3 }
        skip == [ step |-> 1, sampled |-> FALSE, points |-> <<>> ]
    IN  IF ~NodeAt(ns, idx, 0).isdict THEN skip
        ELSE IF \E n \in four : ~n.isdict THEN skip
        ELSE IF ~IsCubicAt(ns, idx) THEN skip
        ELSE IF \E n \in four : n.xy = "missing" THEN skip
        ELSE IF \E n \in four : n.xy = "text" THEN skip
        ELSE [ step |-> 3, sampled |-> TRUE,
               points |-> << NodePoint(NodeAt(ns, idx, 0)),
                             NodePoint(NodeAt(ns, idx, 1)),
                             NodePoint(NodeAt(ns, idx, 2)),
                             NodePoint(NodeAt(ns, idx, 3)) >> ]

\* The node lists of the pools of Spec, and the control points of the
\* segments the node lists of all the pools hold.
PoolNodeLists ==
    { QuarterNodes, ClosedNodes, LineNodes, HookNodes, TightNodes,
      TinyNodes, PointNodes, LoneNodes, OpenWrapNodes, BrokenNodes,
      FarNodes }

\* the point of the node at index k of a list of ScanLists or MalformedLists
ScanPoint(k) == NodePoint(Node("c", ScanX(k), ScanY(k)))

\* the control points a segment at index idx of such a list of n nodes has
ScanSegments ==
    { [ k \in 1..4 |-> ScanPoint((idx + k - 1) % n) ] :
        n \in 2..MaxNodes, idx \in 0..(MaxNodes - 1) }

PoolSegments ==
    UNION { { ScanIteration(ns, k).points :
                k \in { j \in 0..(Len(ns) - 1) : ScanIteration(ns, j).sampled } } :
            ns \in PoolNodeLists }
      \cup ScanSegments

\* _sample_cubic_curve on the segments of the pools, evaluated once
SampledCurves ==
    { [ points |-> q, data |-> _sample_cubic_curve(q[1], q[2], q[3], q[4]) ] :
        q \in PoolSegments }

\* curve_data = self._sample_cubic_curve(p0, p1, p2, p3)
SampledCurve(points) ==
    (CHOOSE c \in SampledCurves : c.points = points).data

\* The head of _collect_curve_data: which node list is scanned.  raises
\* stands for the AttributeError / TypeError of a Path value without get()
\* or a nodes value without len(); empty for the early return.
ResolveNodes(shape) ==
    LET top     == shape.top_nodes
        top_set == top.kind = "number" \/ (top.kind = "list" /\ top.items # <<>>)
        chosen  == IF top_set THEN top ELSE shape.path_nodes
    IN  IF ~top_set /\ ~shape.path_isdict
          THEN [ raises |-> TRUE, empty |-> FALSE, items |-> <<>> ]
        ELSE IF chosen.kind = "number"
          THEN [ raises |-> TRUE, empty |-> FALSE, items |-> <<>> ]
        ELSE [ raises |-> FALSE, empty |-> Len(chosen.items) < 2,
               items |-> chosen.items ]

\* the while loop of _collect_curve_data from index idx to its end
RECURSIVE CollectFrom(_, _)
CollectFrom(ns, idx) ==
    IF idx >= Len(ns) THEN << >>
    ELSE LET it == ScanIteration(ns, idx)
         IN  (IF it.sampled /\ SampledCurve(it.points).valid
                THEN << [ start   |-> idx,
                          samples |-> SampledCurve(it.points).samples ] >>
                ELSE << >>)
               \o CollectFrom(ns, idx + it.step)

\* _collect_curve_data(shape) of a call that returns
_collect_curve_data(shape) ==
    LET found == ResolveNodes(shape)
    IN  IF found.raises \/ found.empty THEN << >>
        ELSE CollectFrom(found.items, 0)

(***************************************************************************)
(* Comb renderer.                                                          *)
(***************************************************************************)
RECURSIVE PowInt(_, _)
PowInt(t, e) == IF e = 0 THEN Fx(1) ELSE Mul[PowInt(t, e - 1), t]

\* pow(t, exponent) for an integer exponent: raises for 0 ** negative
Pow(t, e) ==
    IF e >= 0 THEN [ raises |-> FALSE, value |-> PowInt(t, e) ]
    ELSE IF PowInt(t, -e) = 0 THEN [ raises |-> TRUE, value |-> 0 ]
    ELSE [ raises |-> FALSE, value |-> Div[Fx(1), PowInt(t, -e)] ]

\* "Normalize to 0-1 range"
RawNormalised(curvature, min_curv, max_curv) ==
    IF Lt[Sub[max_curv, min_curv], 1] THEN 0
    ELSE Div[Sub[curvature, min_curv], Sub[max_curv, min_curv]]

\* "Clamp to 0-1": max(0, min(1, t)); min and max return their first
\* argument unless the second compares below (above) it
ClampUnit(t) ==
    LET low == IF Lt[t, Fx(1)] THEN t ELSE Fx(1)
    IN  IF Gt[low, 0] THEN low ELSE 0

\* Normalised with a degenerate range mapped to 1
NormalisedToOne(curvature, min_curv, max_curv) ==
    LET t == IF max_curv - min_curv < 1 THEN Fx(1)
             ELSE Div[curvature - min_curv, max_curv - min_curv]
    IN  Max2[0, Min2[Fx(1), t]]

\* "Normalize to 0-1 range" and "Clamp to 0-1"
Normalised(curvature, min_curv, max_curv) ==
    ClampUnit(RawNormalised(curvature, min_curv, max_curv))

\* Gradient with the upper half blended by t instead of (t - 0.5) * 2
GradientByT(t) ==
    IF 2 * t < Fx(1)
      THEN LET blend == t * 2
           IN  << Trunc[Fx(128) + (255 - 128) * blend, Unit],
                  Trunc[Fx(128) + (255 - 128) * blend, Unit],
                  Trunc[Fx(128) - 128 * blend, Unit], OPACITY >>
      ELSE LET blend == t
           IN  << 255, Trunc[Fx(255) - 255 * blend, Unit], 0, OPACITY >>

\* the gradient gray -> yellow -> red of _get_curvature_color, for the
\* value t after the exponent; int() rounds towards zero
Gradient(t) ==
    IF 2 * t < Fx(1)
      THEN LET blend == t * 2
           IN  << Trunc[Fx(128) + (255 - 128) * blend, Unit],
                  Trunc[Fx(128) + (255 - 128) * blend, Unit],
                  Trunc[Fx(128) - 128 * blend, Unit], OPACITY >>
      ELSE LET blend == 2 * t - Fx(1)
           IN  << 255, Trunc[Fx(255) - 255 * blend, Unit], 0, OPACITY >>

\* _get_curvature_color: the rgba() string as <<r, g, b, alpha>>
_get_curvature_color(curvature, min_curv, max_curv, params) ==
    LET p == Pow(Normalised(curvature, min_curv, max_curv), params.exponent)
    IN  IF p.raises THEN [ raises |-> TRUE, rgba |-> << 0, 0, 0, OPACITY >> ]
        ELSE [ raises |-> FALSE, rgba |-> Gradient(p.value) ]

\* tooth_length of one sample
ToothLength(sample, params) ==
    Mul[Mul[IF Gt[sample.abs, 0] THEN Div[sample.signed, sample.abs] ELSE 0,
            sample.abs],
        SCALE_FACTOR(params)]

\* "Skip extreme values"
TooLong(tooth_length) == Gt[FAbs[tooth_length], Fx(MaxToothLength)]

\* point + perp * tooth_length
ToothEnd(sample, tooth_length) ==
    << Add[sample.point[1], Mul[sample.perp[1], tooth_length]],
       Add[sample.point[2], Mul[sample.perp[2], tooth_length]] >>

\* Tooth with both tooth lengths taken from the average curvature of the
\* pair
ToothOfAverage(samples, j, min_curv, max_curv, params) ==
    LET s_i    == samples[j]
        s_next == samples[j + 1]
        avg_curvature     == Trunc[s_i.abs + s_next.abs, 2]
        tooth_length_i    ==
            ToothLength([ s_i EXCEPT !.abs = avg_curvature,
                                     !.signed = Sign[@] * avg_curvature ],
                        params)
        tooth_length_next ==
            ToothLength([ s_next EXCEPT !.abs = avg_curvature,
                                        !.signed = Sign[@] * avg_curvature ],
                        params)
        color == _get_curvature_color(avg_curvature, min_curv,
                                      max_curv, params)
    IN  [ drawn  |-> ~TooLong(tooth_length_i) /\ ~TooLong(tooth_length_next)
                       /\ ~color.raises,
          pair   |-> j,
          fill   |-> color.rgba,
          verts  |-> << s_i.point, s_next.point,
                        ToothEnd(s_next, tooth_length_next),
                        ToothEnd(s_i, tooth_length_i) >>,
          length |-> << tooth_length_i, tooth_length_next >>,
          range  |-> << min_curv, max_curv >> ]

\* One pass of the loop of _draw_curve_data for the samples j and j + 1:
\* whether a polygon is filled, and the polygon.
Tooth(samples, j, min_curv, max_curv, params) ==
    LET s_i    == samples[j]
        s_next == samples[j + 1]
        avg_curvature     == Div[Add[s_i.abs, s_next.abs], Fx(2)]
        tooth_length_i    == ToothLength(s_i, params)
        tooth_length_next == ToothLength(s_next, params)
        color == _get_curvature_color(avg_curvature, min_curv,
                                      max_curv, params)
    IN  [ drawn  |-> ~TooLong(tooth_length_i) /\ ~TooLong(tooth_length_next)
                       /\ ~color.raises,
          pair   |-> j,
          fill   |-> color.rgba,
          verts  |-> << s_i.point, s_next.point,
                        ToothEnd(s_next, tooth_length_next),
                        ToothEnd(s_i, tooth_length_i) >>,
          length |-> << tooth_length_i, tooth_length_next >>,
          range  |-> << min_curv, max_curv >> ]

\* _draw_curve_data with the loop running from the last pair to the first
DrawCurveDataBackwards(curve_data, min_curv, max_curv, params) ==
    LET samples == curve_data.samples
        last    == Len(samples) - 1
        teeth   == [ j \in 1..last |->
                       Tooth(samples, last + 1 - j, min_curv, max_curv, params) ]
    IN  SelectSeq(teeth, LAMBDA tooth : tooth.drawn)

\* _draw_curve_data: the polygons it fills, in order
_draw_curve_data(curve_data, min_curv, max_curv, params) ==
    LET samples == curve_data.samples
        teeth   == [ j \in 1..(Len(samples) - 1) |->
                       Tooth(samples, j, min_curv, max_curv, params) ]
    IN  SelectSeq(teeth, LAMBDA tooth : tooth.drawn)

\* PathCurvatures over the curves of every path of the layer
GlyphCurvatures(curves) ==
    LET all == Flatten([ p \in 1..Len(layer_data.shapes) |->
                           _collect_curve_data(layer_data.shapes[p]) ])
    IN  Flatten([ k \in 1..Len(all) |->
                    [ j \in 1..Len(all[k].samples) |-> all[k].samples[j].abs ] ])

\* "Find min/max curvature for this path"
PathCurvatures(curves) ==
    Flatten([ k \in 1..Len(curves) |->
                [ j \in 1..Len(curves[k].samples) |-> curves[k].samples[j].abs ] ])

(***************************************************************************)
(* Floats of four significant decimal digits: << m, e >> is m * 10^e, with *)
(* m = 0 or 1000 <= |m| <= 9999, every operation rounded towards zero.     *)
(* They resolve the curvature along one segment, which the fixed-point     *)
(* numbers above do not; the exponent is unbounded, so they stand for      *)
(* floats away from overflow.                                              *)
(***************************************************************************)
Pow10[k \in Nat] == IF k = 0 THEN 1 ELSE 10 * Pow10[k - 1]

\* the float of m * 10^e
DNorm[m \in Int, e \in Int] ==
    IF m = 0 THEN << 0, 0 >>
    ELSE IF Abs[m] >= 10000 THEN DNorm[Trunc[m, 10], e + 1]
    ELSE IF Abs[m] < 1000 THEN DNorm[m * 10, e - 1]
    ELSE << m, e >>

\* the float of the integer n
DOf(n) == DNorm[n, 0]

\* -a
DNeg[a \in Seq(Int)] == << -a[1], a[2] >>

\* a + b
DAdd[a \in Seq(Int), b \in Seq(Int)] ==
    IF a[1] = 0 THEN b
    ELSE IF b[1] = 0 THEN a
    ELSE LET hi == IF a[2] >= b[2] THEN a ELSE b
             lo == IF a[2] >= b[2] THEN b ELSE a
             d  == hi[2] - lo[2]
         IN  IF d > 4 THEN hi
             ELSE IF d > 0
               THEN DNorm[hi[1] * 10 + Trunc[lo[1] * 10, Pow10[d]], hi[2] - 1]
             ELSE DNorm[hi[1] + lo[1], hi[2]]

\* a - b
DSub[a \in Seq(Int), b \in Seq(Int)] == DAdd[a, DNeg[b]]

\* a * b
DMul[a \in Seq(Int), b \in Seq(Int)] ==
    IF a[1] = 0 \/ b[1] = 0 THEN << 0, 0 >>
    ELSE DNorm[Trunc[a[1] * b[1], 1000], a[2] + b[2] + 3]

\* a / b, b # 0
DDiv[a \in Seq(Int), b \in Seq(Int)] ==
    DNorm[Trunc[a[1] * 10000, b[1]], a[2] - b[2] - 4]

\* math.sqrt(a) and a ** 0.5, a >= 0
DSqrt[a \in Seq(Int)] ==
    IF a[1] = 0 THEN a
    ELSE LET m == IF a[2] % 2 = 1 THEN a[1] * 10 ELSE a[1]
             e == IF a[2] % 2 = 1 THEN a[2] - 1 ELSE a[2]
         IN  DNorm[ISqrt[m * 10000], (e - 4) \div 2]

\* a < b
DLess[a \in Seq(Int), b \in Seq(Int)] == DSub[a, b][1] < 0

\* 1e-10
DEpsilon == << 1000, -13 >>

\* t = max(0.0, min(1.0, t))
DClampT[t \in Seq(Int)] ==
    IF DLess[t, DOf(0)] THEN DOf(0) ELSE IF DLess[DOf(1), t] THEN DOf(1) ELSE t

\* one coordinate of _cubic_bezier_tangent
DTangentCoord[a0 \in Seq(Int), a1 \in Seq(Int), a2 \in Seq(Int), a3 \in Seq(Int), tc \in Seq(Int)] ==
    LET mt  == DSub[DOf(1), tc]
    IN  DAdd[DAdd[DMul[DMul[DOf(3), DMul[mt, mt]], DSub[a1, a0]],
                  DMul[DMul[DMul[DOf(6), mt], tc], DSub[a2, a1]]],
             DMul[DMul[DOf(3), DMul[tc, tc]], DSub[a3, a2]]]

\* one coordinate of the second derivative; t is not clamped here
DSecondCoord[a0 \in Seq(Int), a1 \in Seq(Int), a2 \in Seq(Int), a3 \in Seq(Int), t \in Seq(Int)] ==
    LET mt == DSub[DOf(1), t]
    IN  DAdd[DMul[DMul[DOf(6), mt], DAdd[DSub[a2, DMul[DOf(2), a1]], a0]],
             DMul[DMul[DOf(6), t], DAdd[DSub[a3, DMul[DOf(2), a2]], a1]]]

\* DCurvatureOf with the velocity squared in place of its power 1.5
DCurvatureNoPower(dx, dy, ddx, ddy) ==
    LET cross_product    == DSub[DMul[dx, ddy], DMul[dy, ddx]]
        velocity_squared == DAdd[DMul[dx, dx], DMul[dy, dy]]
        curvature        == DDiv[cross_product, velocity_squared]
    IN  IF DLess[velocity_squared, DEpsilon] THEN DOf(0)
        ELSE IF DLess[DOf(MaxCurvature), curvature] THEN DOf(MaxCurvature)
        ELSE IF DLess[curvature, DNeg[DOf(MaxCurvature)]]
          THEN DNeg[DOf(MaxCurvature)]
        ELSE curvature

\* _cubic_bezier_curvature once the first derivative (dx, dy) and the
\* second (ddx, ddy) are known
DCurvatureOf(dx, dy, ddx, ddy) ==
    LET cross_product    == DSub[DMul[dx, ddy], DMul[dy, ddx]]
        velocity_squared == DAdd[DMul[dx, dx], DMul[dy, dy]]
        curvature        == DDiv[cross_product,
                                 DMul[velocity_squared, DSqrt[velocity_squared]]]
    IN  IF DLess[velocity_squared, DEpsilon] THEN DOf(0)
        ELSE IF DLess[DOf(MaxCurvature), curvature] THEN DOf(MaxCurvature)
        ELSE IF DLess[curvature, DNeg[DOf(MaxCurvature)]]
          THEN DNeg[DOf(MaxCurvature)]
        ELSE curvature

\* one pass of the sampling loop of _sample_cubic_curve for index idx:
\* whether the sample is appended, and its signed and absolute curvature
DSampleAt(p0, p1, p2, p3, idx) ==
    LET t  == DDiv[DOf(idx), DOf(SAMPLES_PER_CURVE - 1)]
        tc == DClampT[t]
        dx == DTangentCoord[p0[1], p1[1], p2[1], p3[1], tc]
        dy == DTangentCoord[p0[2], p1[2], p2[2], p3[2], tc]
        curvature == DCurvatureOf(dx, dy,
                                  DSecondCoord[p0[1], p1[1], p2[1], p3[1], t],
                                  DSecondCoord[p0[2], p1[2], p2[2], p3[2], t])
        tangent_length == DSqrt[DAdd[DMul[dx, dx], DMul[dy, dy]]]
    IN  [ index  |-> idx,
          keep   |-> /\ ~(dx[1] = 0 /\ dy[1] = 0)
                     /\ ~DLess[tangent_length, DEpsilon],
          signed |-> DNeg[curvature],
          abs    |-> IF curvature[1] < 0 THEN DNeg[curvature] ELSE curvature ]

\* _sample_cubic_curve: valid is FALSE for the None result
DSampleCurve(p0, p1, p2, p3) ==
    LET all     == [ k \in 1..SAMPLES_PER_CURVE |->
                       DSampleAt(p0, p1, p2, p3, k - 1) ]
        samples == SelectSeq(all, LAMBDA smp : smp.keep)
    IN  [ valid |-> Len(samples) >= 2, samples |-> samples ]

\* the quarter circle P0 = (0, 0), P1 = (0, 55.23), P2 = (44.77, 100),
\* P3 = (100, 100) scaled by the whole factor f
QuarterCircle(f) ==
    << << DOf(0), DOf(0) >>,
       << DOf(0), DNorm[5523 * f, -2] >>,
       << DNorm[4477 * f, -2], DOf(100 * f) >>,
       << DOf(100 * f), DOf(100 * f) >> >>

\* the factors of SpecQuarter
QuarterFactors == ((-MaxFactor)..MaxFactor) \ { 0 }

(***************************************************************************)
(* The arguments of the direct calls of SpecKin.                           *)
(***************************************************************************)
KinPoints ==
    { << Fx(0), Fx(0) >>, << Fx(1), Fx(0) >>, << Fx(0), Fx(2) >>,
      << Fx(3), Fx(3) >>, << Fx(HugeCoord), Fx(0) >>,
      << -Fx(HugeCoord), Fx(HugeCoord) >> }

KinQuads == KinPoints \X KinPoints \X KinPoints \X KinPoints

\* 0, 1/4, 1/2, 1, and values outside [0, 1]
KinTs == { 0, Unit \div 4, Unit \div 2, Fx(1), -Fx(1), Fx(2), FloatMax }

\* cubics whose control points are evenly spaced on a line: along an
\* axis, slanted, and along an axis at the largest whole coordinate
StraightQuads ==
    { << << Fx(0), Fx(0) >>, << Fx(2), Fx(0) >>, << Fx(4), Fx(0) >>,
         << Fx(6), Fx(0) >> >>,
      << << Fx(0), Fx(0) >>, << Fx(1), Fx(2) >>, << Fx(2), Fx(4) >>,
         << Fx(3), Fx(6) >> >>,
      << << Fx(HugeCoord), Fx(0) >>, << Fx(HugeCoord), Fx(1) >>,
         << Fx(HugeCoord), Fx(2) >>, << Fx(HugeCoord), Fx(3) >> >> }

\* the layer_data of SpecFar: the far path, a bent path, and both
FarLayerPool ==
    { Layer(<< PathShape(NodeList(FarNodes), FALSE) >>),
      Layer(<< PathShape(NodeList(QuarterNodes), FALSE) >>),
      Layer(<< PathShape(NodeList(QuarterNodes), FALSE),
               PathShape(NodeList(FarNodes), FALSE) >>) }

\* the control points of the direct calls of _sample_cubic_curve
SampleQuads == KinQuads \cup StraightQuads

NoCall == [ fn |-> "none", p |-> << >>, t |-> 0, out |-> << >> ]

\* The arguments of the direct calls of _get_curvature_color: an absolute
\* curvature and the range [min_curv, max_curv] of a path.
ColorCurvatures == 0..Fx(MaxCurvature)

ColorRanges ==
    { << 0, Fx(MaxCurvature) >>, << 0, 0 >>, << 0, Unit \div 2 >>,
      << Unit \div 4, Unit \div 2 >>, << Unit \div 2, Fx(MaxCurvature) >> }

\* the exponents get_parameter can return
ColorExponents ==
    { InitParameter(b, UiElements.exponent) : b \in StoredPool.exponent }
      \cup SetPool.exponent

(***************************************************************************)
(* Initial states.                                                         *)
(***************************************************************************)
DefaultParameters ==
    [ scale_factor |-> UiElements.scale_factor.default,
      exponent     |-> UiElements.exponent.default ]

InitParameters ==
    parameters \in
      { [ scale_factor |-> InitParameter(a, UiElements.scale_factor),
          exponent     |-> InitParameter(b, UiElements.exponent) ] :
          a \in StoredPool.scale_factor, b \in StoredPool.exponent }

InitCall ==
    /\ pc = "idle"
    /\ si = 0
    /\ nodes = <<>>
    /\ i = 0
    /\ curve_data_list = <<>>
    /\ visited = <<>>
    /\ treated = <<>>
    /\ min_curvature = 0
    /\ max_curvature = 0
    /\ ci = 0
    /\ ctx = [ depth |-> 0, fills |-> <<>>, calls |-> <<>> ]
    /\ history = <<>>

Init ==
    /\ InitParameters
    /\ layer_data \in LayerPool
    /\ InitCall
    /\ kin = NoCall

InitScan ==
    /\ parameters = DefaultParameters
    /\ layer_data \in ScanLayerPool
    /\ InitCall
    /\ kin = NoCall

InitMalformed ==
    /\ parameters = DefaultParameters
    /\ layer_data \in MalformedLayerPool
    /\ InitCall
    /\ kin = NoCall

InitFar ==
    /\ InitParameters
    /\ layer_data \in FarLayerPool
    /\ InitCall
    /\ kin = NoCall

InitKin ==
    /\ parameters = DefaultParameters
    /\ layer_data = NoneLayer
    /\ InitCall
    /\ kin \in { [ fn |-> "args", p |-> q, t |-> t, out |-> << >> ] :
                    q \in KinQuads, t \in KinTs }

InitColor ==
    /\ parameters \in { [ DefaultParameters EXCEPT !.exponent = e ] :
                           e \in ColorExponents }
    /\ layer_data = NoneLayer
    /\ InitCall
    /\ kin \in { [ fn |-> "args", p |-> << c, r[1], r[2] >>, t |-> 0,
                    out |-> << >> ] :
                    c \in ColorCurvatures, r \in ColorRanges }

InitSample ==
    /\ parameters = DefaultParameters
    /\ layer_data = NoneLayer
    /\ InitCall
    /\ kin \in { [ fn |-> "args", p |-> q, t |-> 0, out |-> << >> ] :
                    q \in SampleQuads }

InitQuarter ==
    /\ parameters = DefaultParameters
    /\ layer_data = NoneLayer
    /\ InitCall
    /\ kin \in { [ fn |-> "args", p |-> QuarterCircle(f), t |-> f,
                    out |-> << >> ] : f \in QuarterFactors }

InitCalls ==
    /\ parameters = DefaultParameters
    /\ layer_data \in CallLayerPool
    /\ InitCall
    /\ kin = NoCall

(***************************************************************************)
(* Actions.                                                                *)
(***************************************************************************)
\* one call of a method of ctx, or one assignment to ctx.fillStyle
Call(op, args) == [ op |-> op, args |-> args ]

\* set_parameter(param_id, value), between draw calls
SetParameter ==
    /\ pc = "idle"
    /\ \E id \in ParamIds : \E value \in SetPool[id] :
         parameters' = [ parameters EXCEPT ![id] = value ]
    /\ UNCHANGED << layer_data, pc, si, scan_vars, range_vars, ctx, kin, history >>

\* draw_below up to the loop over the shapes: the two early returns, or
\* ctx.save()
DrawBelowEnter ==
    /\ pc = "idle"
    /\ IF layer_data.kind = "none" \/ layer_data.shapes = <<>>
         THEN /\ pc' = "done"
              /\ UNCHANGED << si, ctx >>
         ELSE /\ pc' = "shape"
              /\ si' = 1
              /\ ctx' = [ ctx EXCEPT !.depth = @ + 1,
                                     !.calls = Append(@, Call("save", << >>)) ]
    /\ UNCHANGED << parameters, layer_data, scan_vars, range_vars, kin, history >>

\* The loop over the shapes takes the next shape: 'Path' in shape, and the
\* head of _collect_curve_data.
NextShape ==
    /\ pc = "shape"
    /\ si <= Len(layer_data.shapes)
    /\ LET shape == layer_data.shapes[si]
           found == ResolveNodes(shape)
       IN  IF shape.kind = "none"
             THEN /\ pc' = "raised"
                  /\ UNCHANGED << si, scan_vars >>
           ELSE IF shape.kind = "component"
             THEN /\ si' = si + 1
                  /\ UNCHANGED << pc, scan_vars >>
           ELSE IF found.raises
             THEN /\ pc' = "raised"
                  /\ UNCHANGED << si, scan_vars >>
           ELSE IF found.empty
             THEN /\ si' = si + 1
                  /\ UNCHANGED << pc, scan_vars >>
           ELSE /\ pc' = "scan"
                /\ nodes' = found.items
                /\ i' = 0
                /\ curve_data_list' = <<>>
                /\ visited' = <<>>
                /\ treated' = <<>>
                /\ UNCHANGED si
    /\ UNCHANGED << parameters, layer_data, range_vars, ctx, kin, history >>

\* ScanStep with the loop running three indices beyond the end of the list
ScanStepBeyond ==
    /\ pc = "scan"
    /\ i < Len(nodes) + 3
    /\ \E it \in { ScanIteration(nodes, i) } :
           /\ i' = i + it.step
           /\ visited' = Append(visited, i)
           /\ treated' = IF it.sampled THEN Append(treated, i) ELSE treated
           /\ curve_data_list' =
                IF it.sampled /\ SampledCurve(it.points).valid
                  THEN Append(curve_data_list,
                              [ start   |-> i,
                                samples |-> SampledCurve(it.points).samples ])
                  ELSE curve_data_list
    /\ UNCHANGED << parameters, layer_data, pc, si, nodes, range_vars, ctx, kin, history >>

\* one iteration of the while loop of _collect_curve_data
ScanStep ==
    /\ pc = "scan"
    /\ i < Len(nodes)
    /\ \E it \in { ScanIteration(nodes, i) } :
           /\ i' = i + it.step
           /\ visited' = Append(visited, i)
           /\ treated' = IF it.sampled THEN Append(treated, i) ELSE treated
           /\ curve_data_list' =
                IF it.sampled /\ SampledCurve(it.points).valid
                  THEN Append(curve_data_list,
                              [ start   |-> i,
                                samples |-> SampledCurve(it.points).samples ])
                  ELSE curve_data_list
    /\ UNCHANGED << parameters, layer_data, pc, si, nodes, range_vars, ctx, kin, history >>

\* _collect_curve_data returns; draw_below finds the range of the path
PathRange ==
    /\ pc = "scan"
    /\ i >= Len(nodes)
    /\ \E path_curvatures \in { PathCurvatures(curve_data_list) } :
           IF curve_data_list = <<>> \/ path_curvatures = <<>>
             THEN /\ pc' = "shape"
                  /\ si' = si + 1
                  /\ UNCHANGED range_vars
             ELSE /\ pc' = "draw"
                  /\ min_curvature' = SeqMin(path_curvatures)
                  /\ max_curvature' = SeqMax(path_curvatures)
                  /\ ci' = 1
                  /\ UNCHANGED si
    /\ UNCHANGED << parameters, layer_data, scan_vars, ctx, kin, history >>

\* ToothCalls with the two tooth ends exchanged
ToothCallsCrossed(tooth) ==
    << Call("fillStyle", tooth.fill),
       Call("beginPath", << >>),
       Call("moveTo", tooth.verts[1]),
       Call("lineTo", tooth.verts[2]),
       Call("lineTo", tooth.verts[4]),
       Call("lineTo", tooth.verts[3]),
       Call("closePath", << >>),
       Call("fill", << >>) >>

\* what _draw_curve_data does to ctx for one tooth that is drawn
ToothCalls(tooth) ==
    << Call("fillStyle", tooth.fill),
       Call("beginPath", << >>),
       Call("moveTo", tooth.verts[1]),
       Call("lineTo", tooth.verts[2]),
       Call("lineTo", tooth.verts[3]),
       Call("lineTo", tooth.verts[4]),
       Call("closePath", << >>),
       Call("fill", << >>) >>

\* a polygon of _draw_curve_data as the surface receives it
Filled(tooth, path, curve) ==
    [ path   |-> path,
      curve  |-> curve,
      start  |-> curve_data_list[curve].start,
      pair   |-> tooth.pair,
      fill   |-> tooth.fill,
      verts  |-> tooth.verts,
      length |-> tooth.length,
      range  |-> tooth.range ]

\* DrawCurveData with the range of the curve drawn instead of the range of
\* the path
DrawCurveDataOwnRange ==
    /\ pc = "draw"
    /\ ci <= Len(curve_data_list)
    /\ \E teeth \in { _draw_curve_data(
                          curve_data_list[ci],
                          SeqMin(PathCurvatures(<< curve_data_list[ci] >>)),
                          SeqMax(PathCurvatures(<< curve_data_list[ci] >>)),
                          parameters) } :
           ctx' = [ ctx EXCEPT
                      !.fills = @ \o [ k \in 1..Len(teeth) |->
                                         Filled(teeth[k], si, ci) ],
                      !.calls = @ \o Flatten([ k \in 1..Len(teeth) |->
                                                  ToothCalls(teeth[k]) ]) ]
    /\ ci' = ci + 1
    /\ UNCHANGED << parameters, layer_data, pc, si, scan_vars,
                    min_curvature, max_curvature, kin, history >>

\* one call of _draw_curve_data in the loop over curve_data_list
DrawCurveData ==
    /\ pc = "draw"
    /\ ci <= Len(curve_data_list)
    /\ \E teeth \in { _draw_curve_data(curve_data_list[ci], min_curvature,
                                        max_curvature, parameters) } :
           ctx' = [ ctx EXCEPT
                      !.fills = @ \o [ k \in 1..Len(teeth) |->
                                         Filled(teeth[k], si, ci) ],
                      !.calls = @ \o Flatten([ k \in 1..Len(teeth) |->
                                                  ToothCalls(teeth[k]) ]) ]
    /\ ci' = ci + 1
    /\ UNCHANGED << parameters, layer_data, pc, si, scan_vars,
                    min_curvature, max_curvature, kin, history >>

\* the loop over curve_data_list ends: on to the next shape
PathDone ==
    /\ pc = "draw"
    /\ ci > Len(curve_data_list)
    /\ pc' = "shape"
    /\ si' = si + 1
    /\ UNCHANGED << parameters, layer_data, scan_vars, range_vars, ctx, kin, history >>

\* DrawBelowReturn storing the exponent it has drawn with, made positive
DrawBelowReturnStoring ==
    /\ pc = "shape"
    /\ si > Len(layer_data.shapes)
    /\ pc' = "done"
    /\ ctx' = [ ctx EXCEPT !.depth = @ - 1,
                           !.calls = Append(@, Call("restore", << >>)) ]
    /\ parameters' = [ parameters EXCEPT !.exponent = Abs[@] ]
    /\ UNCHANGED << layer_data, si, scan_vars, range_vars, kin, history >>

\* the loop over the shapes ends: ctx.restore() and return
DrawBelowReturn ==
    /\ pc = "shape"
    /\ si > Len(layer_data.shapes)
    /\ pc' = "done"
    /\ ctx' = [ ctx EXCEPT !.depth = @ - 1, !.calls = Append(@, Call("restore", << >>)) ]
    /\ UNCHANGED << parameters, layer_data, si, scan_vars, range_vars, kin, history >>

DrawBelow ==
    \/ DrawBelowEnter
    \/ NextShape
    \/ ScanStep
    \/ PathRange
    \/ DrawCurveData
    \/ PathDone
    \/ DrawBelowReturn

\* draw_below is over, by a return or by an exception, and is called
\* again: with a layer_data of the caller's, the locals of the call new
NextCall ==
    /\ pc \in { "done", "raised" }
    /\ Len(history) < MaxCalls - 1
    /\ history' = Append(history, [ layer_data |-> layer_data,
                                     parameters |-> parameters,
                                     raised     |-> pc = "raised",
                                     calls      |-> ctx.calls ])
    /\ layer_data' \in CallLayerPool
    /\ pc' = "idle"
    /\ si' = 0
    /\ nodes' = <<>>
    /\ i' = 0
    /\ curve_data_list' = <<>>
    /\ visited' = <<>>
    /\ treated' = <<>>
    /\ min_curvature' = 0
    /\ max_curvature' = 0
    /\ ci' = 0
    /\ ctx' = [ ctx EXCEPT !.fills = <<>>, !.calls = <<>> ]
    /\ UNCHANGED << parameters, kin >>

\* a direct call of _cubic_bezier_point
CallPoint ==
    /\ kin.fn = "args"
    /\ kin' = [ kin EXCEPT
                  !.fn  = "point",
                  !.out = _cubic_bezier_point(kin.p[1], kin.p[2], kin.p[3],
                                              kin.p[4], kin.t) ]
    /\ UNCHANGED << parameters, layer_data, pc, si, scan_vars, range_vars, ctx,
                    history >>

\* a direct call of _cubic_bezier_tangent
CallTangent ==
    /\ kin.fn = "args"
    /\ kin' = [ kin EXCEPT
                  !.fn  = "tangent",
                  !.out = _cubic_bezier_tangent(kin.p[1], kin.p[2], kin.p[3],
                                                kin.p[4], kin.t) ]
    /\ UNCHANGED << parameters, layer_data, pc, si, scan_vars, range_vars, ctx,
                    history >>

\* a direct call of _cubic_bezier_curvature
CallCurvature ==
    /\ kin.fn = "args"
    /\ kin' = [ kin EXCEPT
                  !.fn  = "curvature",
                  !.out = _cubic_bezier_curvature(kin.p[1], kin.p[2], kin.p[3],
                                                  kin.p[4], kin.t) ]
    /\ UNCHANGED << parameters, layer_data, pc, si, scan_vars, range_vars, ctx,
                    history >>

\* a direct call of _get_curvature_color(curvature, min_curv, max_curv)
CallColor ==
    /\ kin.fn = "args"
    /\ kin' = [ kin EXCEPT
                  !.fn  = "color",
                  !.out = _get_curvature_color(kin.p[1], kin.p[2], kin.p[3],
                                               parameters) ]
    /\ UNCHANGED << parameters, layer_data, pc, si, scan_vars, range_vars, ctx,
                    history >>

\* a direct call of _sample_cubic_curve(p0, p1, p2, p3)
CallSample ==
    /\ kin.fn = "args"
    /\ kin' = [ kin EXCEPT
                  !.fn  = "sample",
                  !.out = _sample_cubic_curve(kin.p[1], kin.p[2], kin.p[3],
                                              kin.p[4]) ]
    /\ UNCHANGED << parameters, layer_data, pc, si, scan_vars, range_vars, ctx,
                    history >>

\* a direct call of _sample_cubic_curve on a scaled quarter circle
CallQuarter ==
    /\ kin.fn = "args"
    /\ kin' = [ kin EXCEPT
                  !.fn  = "quarter",
                  !.out = DSampleCurve(kin.p[1], kin.p[2], kin.p[3],
                                       kin.p[4]) ]
    /\ UNCHANGED << parameters, layer_data, pc, si, scan_vars, range_vars, ctx,
                    history >>

NextKin == CallPoint \/ CallTangent \/ CallCurvature

Next == SetParameter \/ DrawBelow

Spec == Init /\ [][Next]_vars

SpecFar == InitFar /\ [][Next]_vars

SpecScan == InitScan /\ [][DrawBelow]_vars

\* draw_below is one synchronous call: it keeps running until it is over
SpecScanFair == InitScan /\ [][DrawBelow]_vars /\ WF_vars(DrawBelow)

SpecMalformed == InitMalformed /\ [][DrawBelow]_vars

SpecKin == InitKin /\ [][NextKin]_vars

SpecColor == InitColor /\ [][CallColor]_vars

SpecSample == InitSample /\ [][CallSample]_vars

SpecQuarter == InitQuarter /\ [][CallQuarter]_vars

SpecCalls == InitCalls /\ [][Next \/ NextCall]_vars

(***************************************************************************)
(* Properties of the kinematics methods, checked under SpecKin.            *)
(***************************************************************************)
\* the curvature before the clamp of the call kin records
KinRaw == RawCurvature(kin.p[1], kin.p[2], kin.p[3], kin.p[4], kin.t)

\* C4: _cubic_bezier_curvature returns a value in [-1, 1] for every finite
\* control-point quadruple and every t, and a curvature whose magnitude
\* exceeds 1 is returned as +1 or -1 with the sign it has.
C4_CurvatureBounded ==
    kin.fn = "curvature" =>
      /\ kin.out # NaN
      /\ -Fx(MaxCurvature) <= kin.out
      /\ kin.out <= Fx(MaxCurvature)
      /\ (~KinRaw.returned /\ Gt[FAbs[KinRaw.curvature], Fx(MaxCurvature)]) =>
            kin.out = (IF KinRaw.curvature > 0 THEN Fx(MaxCurvature)
                       ELSE -Fx(MaxCurvature))

\* C5: _cubic_bezier_point returns exactly P0 at t = 0 and exactly P3 at
\* t = 1, for every control-point quadruple.
C5_EndpointInterpolation ==
    kin.fn = "point" =>
      /\ (kin.t = 0 => kin.out = kin.p[1])
      /\ (kin.t = Fx(1) => kin.out = kin.p[4])

\* a call at t = 1 whose four control points differ pairwise and whose
\* end point has a huge coordinate has returned that end point
C5_Witness ==
    /\ kin.fn = "point"
    /\ kin.t = Fx(1)
    /\ Cardinality({ kin.p[1], kin.p[2], kin.p[3], kin.p[4] }) = 4
    /\ kin.p[4] = << -Fx(HugeCoord), Fx(HugeCoord) >>
    /\ kin.out = kin.p[4]

(***************************************************************************)
(* Properties of draw_below.                                               *)
(***************************************************************************)
\* the absolute curvatures of the samples of a list of curves
OwnCurvatures(curves) ==
    UNION { { curves[k].samples[j].abs : j \in 1..Len(curves[k].samples) } :
            k \in 1..Len(curves) }

SetMin(S) == CHOOSE m \in S : \A x \in S : m <= x

SetMax(S) == CHOOSE m \in S : \A x \in S : m >= x

\* What a draw call given the one shape alone fills: the polygons of the
\* curves of the shape, coloured on the range of the samples of the shape.
PathAlone(shape, params) ==
    LET curves == _collect_curve_data(shape)
        own    == OwnCurvatures(curves)
    IN  IF own = {} THEN << >>
        ELSE Flatten([ c \in 1..Len(curves) |->
                         _draw_curve_data(curves[c], SetMin(own), SetMax(own),
                                          params) ])

\* the parameter values a call of Spec can run with
ParamSpace ==
    [ scale_factor : { InitParameter(a, UiElements.scale_factor) :
                         a \in StoredPool.scale_factor }
                       \cup SetPool.scale_factor,
      exponent     : { InitParameter(b, UiElements.exponent) :
                         b \in StoredPool.exponent }
                       \cup SetPool.exponent ]

\* PathAlone for the shapes and parameter values of Spec, evaluated once
AloneFills ==
    { [ shape |-> sh, params |-> pr, fills |-> PathAlone(sh, pr) ] :
        sh \in ShapePool \cup SingleShapePool, pr \in ParamSpace }

AloneFillsOf(shape, params) ==
    (CHOOSE e \in AloneFills : e.shape = shape /\ e.params = params).fills

\* the polygons filled so far for the shape at index path
FillsOf(path) == SelectSeq(ctx.fills, LAMBDA f : f.path = path)

ClaimedStart(ns, idx) ==
    /\ \A k \in 0..3 : NodeAt(ns, idx, k).isdict /\ NodeAt(ns, idx, k).xy = "num"
    /\ NodeAt(ns, idx, 0).type \in OnCurveTypes
    /\ NodeAt(ns, idx, 1).type = "o"
    /\ NodeAt(ns, idx, 2).type = "o"
    /\ NodeAt(ns, idx, 3).type \in OnCurveTypes

\* C2: _collect_curve_data samples a segment at exactly the indices of
\* 0..n-1 where the four nodes from that index on (mod n) are on-curve,
\* off-curve, off-curve, on-curve with x and y, and at no other index.
C2_ScanPattern ==
    /\ \A k \in 1..Len(visited) :
          (visited[k] \in Range(treated)) <=> ClaimedStart(nodes, visited[k])
    /\ (pc = "scan" /\ i >= Len(nodes)) =>
          Range(treated) =
            { idx \in 0..(Len(nodes) - 1) : ClaimedStart(nodes, idx) }

\* C3: no malformed path aborts draw_below: the call never ends by raising.
C3_NeverRaises == pc # "raised"

\* the multiplier 2000 + 250 * scale_factor
ClaimedScale == Fx(2000 + 250 * parameters.scale_factor)

\* sign(signedCurvature) * absCurvature * SCALE of one sample
ClaimedLength(sample) ==
    IF sample.abs = 0 THEN 0
    ELSE Sign[sample.signed] * Mul[sample.abs, ClaimedScale]

\* point + perpendicular * toothLength of one sample
ClaimedEnd(sample) ==
    << sample.point[1] + Mul[sample.perp[1], ClaimedLength(sample)],
       sample.point[2] + Mul[sample.perp[2], ClaimedLength(sample)] >>

\* the two samples a polygon of the path being drawn was made from
SamplesOf(f) ==
    << curve_data_list[f.curve].samples[f.pair],
       curve_data_list[f.curve].samples[f.pair + 1] >>

\* C6: for every tooth filled, the tooth length at each of its two
\* endpoints is sign(signed) * abs * SCALE of the sample at that endpoint,
\* SCALE = 2000 + 250 * scale_factor, the tooth end is point + perp * length,
\* and a sample of curvature 0 has tooth length 0.
C6_ToothLength ==
    pc = "draw" =>
      \A f \in Range(FillsOf(si)) :
        LET a == SamplesOf(f)[1]
            b == SamplesOf(f)[2]
        IN  /\ f.length = << ClaimedLength(a), ClaimedLength(b) >>
            /\ f.verts = << a.point, b.point, ClaimedEnd(b), ClaimedEnd(a) >>
            /\ (a.abs = 0 => f.length[1] = 0)
            /\ (b.abs = 0 => f.length[2] = 0)

\* a tooth whose two endpoints have different lengths, neither 0, is filled
\* with a scale_factor other than the default
C6_Witness ==
    /\ pc = "draw"
    /\ parameters.scale_factor # UiElements.scale_factor.default
    /\ \E f \in Range(FillsOf(si)) :
          /\ f.length[1] # f.length[2]
          /\ f.length[1] # 0
          /\ f.length[2] # 0
          /\ f.verts[4] # f.verts[1]

\* the path being drawn has one segment, with one signed curvature at all
\* its samples
UniformPath ==
    /\ Len(curve_data_list) = 1
    /\ \A j \in 1..Len(curve_data_list[1].samples) :
          curve_data_list[1].samples[j].signed =
            curve_data_list[1].samples[1].signed

\* C7: when the only segment of a path has the same curvature at all its
\* samples and the exponent lies in [1, 5], every tooth filled has one and
\* the same length at both endpoints and the fill rgba(128, 128, 128, 0.4).
C7_UniformTeeth ==
    (pc = "draw" /\ UniformPath /\ parameters.exponent \in 1..5) =>
      \A f, g \in Range(FillsOf(si)) :
        /\ f.fill = << 128, 128, 128, "0.4" >>
        /\ f.length[1] = f.length[2]
        /\ f.length = g.length

\* all the teeth of a uniform segment of curvature other than 0 are filled
C7_Witness ==
    /\ pc = "draw"
    /\ UniformPath
    /\ parameters.exponent \in 1..5
    /\ curve_data_list[1].samples[1].signed # 0
    /\ Len(FillsOf(si)) = SAMPLES_PER_CURVE - 1

\* the polygon of the pair (j, j + 1) of curve c of the path being drawn
\* has been filled
Emitted(c, j) ==
    \E f \in Range(FillsOf(si)) : f.curve = c /\ f.pair = j

\* both endpoints of the pair have |toothLength| <= 10000
WithinGuard(c, j) ==
    LET samples == curve_data_list[c].samples
    IN  /\ Abs[ClaimedLength(samples[j])] <= Fx(MaxToothLength)
        /\ Abs[ClaimedLength(samples[j + 1])] <= Fx(MaxToothLength)

\* C8: the polygon of a pair of adjacent samples is filled if and only if
\* both endpoints have |toothLength| <= 10000, for every pair of every
\* segment of the path, those after a discarded pair included.
C8_GuardDecides ==
    pc = "draw" =>
      \A c \in 1..(ci - 1) :
        \A j \in 1..(Len(curve_data_list[c].samples) - 1) :
          Emitted(c, j) <=> WithinGuard(c, j)

\* C9: the fills reach the surface in path, then segment, then tooth order:
\* by increasing shape index, within a path by increasing start index of
\* the scan, within a segment by increasing sample index.
C9_FillOrder ==
    \A k \in 1..(Len(ctx.fills) - 1) :
      LET f == ctx.fills[k]
          g == ctx.fills[k + 1]
      IN  \/ f.path < g.path
          \/ f.path = g.path /\ f.start < g.start
          \/ f.path = g.path /\ f.start = g.start /\ f.pair < g.pair

\* a call has returned after filling teeth of two paths, one of them with
\* two segments
C9_Witness ==
    /\ pc = "done"
    /\ \E f, g, h \in Range(ctx.fills) :
          f.path # g.path /\ g.path = h.path /\ g.start # h.start

\* C10: when a polygon of a path is filled the scan of the path is over,
\* every segment of the path is sampled and the range is the one of those
\* samples; filling leaves the samples and the range as they are, and every
\* polygon of the path carries that range.
C10_RangeBeforeTeeth ==
    [][ ctx'.fills # ctx.fills =>
          /\ pc = "draw"
          /\ i >= Len(nodes)
          /\ curve_data_list = _collect_curve_data(layer_data.shapes[si])
          /\ min_curvature = SetMin(OwnCurvatures(curve_data_list))
          /\ max_curvature = SetMax(OwnCurvatures(curve_data_list))
          /\ UNCHANGED << si, scan_vars, min_curvature, max_curvature >>
          /\ \A k \in 1..Len(ctx'.fills) :
                ctx'.fills[k].path = si =>
                  ctx'.fills[k].range = << min_curvature, max_curvature >>
      ]_vars

\* teeth of two segments of one path are filled on a range that is not
\* degenerate
C10_Witness ==
    /\ pc = "draw"
    /\ min_curvature < max_curvature
    /\ \E f, g \in Range(FillsOf(si)) : f.curve # g.curve


(***************************************************************************)
(* C11: the calls on ctx of one tooth.                                     *)
(***************************************************************************)
\* the calls on ctx between save and restore
DrawCalls ==
    SelectSeq(ctx.calls, LAMBDA c : c.op \notin { "save", "restore" })

\* the eight calls the claim gives for the polygon f
ClaimedCalls(f) ==
    << Call("fillStyle", f.fill),
       Call("beginPath", << >>),
       Call("moveTo", SamplesOf(f)[1].point),
       Call("lineTo", SamplesOf(f)[2].point),
       Call("lineTo", ClaimedEnd(SamplesOf(f)[2])),
       Call("lineTo", ClaimedEnd(SamplesOf(f)[1])),
       Call("closePath", << >>),
       Call("fill", << >>) >>

\* C11: the calls on ctx are eight for each polygon filled and no others:
\* fillStyle, beginPath, moveTo(point_i), lineTo(point_next),
\* lineTo(toothEnd_next), lineTo(toothEnd_i), closePath, fill, in this
\* order, so that there is exactly one fill for each tooth.
C11_ToothCalls ==
    /\ Len(DrawCalls) = 8 * Len(ctx.fills)
    /\ Len(SelectSeq(ctx.calls, LAMBDA c : c.op = "fill")) = Len(ctx.fills)
    /\ pc = "draw" =>
          \A k \in 1..Len(ctx.fills) :
            ctx.fills[k].path = si =>
              SubSeq(DrawCalls, 8 * k - 7, 8 * k) = ClaimedCalls(ctx.fills[k])

\* a tooth of a second path is drawn whose four vertices are all different
C11_Witness ==
    /\ pc = "draw"
    /\ si = 2
    /\ \E k \in 1..Len(ctx.fills) :
          /\ ctx.fills[k].path = 2
          /\ k > 1
          /\ ctx.fills[1].path = 1
          /\ Cardinality(Range(ctx.fills[k].verts)) = 4
          /\ DrawCalls[8 * k - 3].args # DrawCalls[8 * k - 2].args

(***************************************************************************)
(* C12: the colour gradient.                                               *)
(***************************************************************************)
\* the value after normalisation, clamp and exponent of a direct call of
\* _get_curvature_color
ColorT ==
    Pow(Normalised(kin.p[1], kin.p[2], kin.p[3]), parameters.exponent)

\* the channel that goes from a at blend 0 to b at blend 1, as an integer
Blend(a, b, blend) == Trunc[Fx(a) + (b - a) * blend, Unit]

\* C12: a colour _get_curvature_color returns has alpha 0.4; when the value
\* t after the exponent lies in [0, 1], the colour is gray (128, 128, 128)
\* blended towards yellow (255, 255, 0) by 2 * t for t < 0.5, and yellow
\* blended towards red (255, 0, 0) by 2 * t - 1 for t >= 0.5: gray at 0,
\* yellow at 0.5, red at 1.
C12_Gradient ==
    (kin.fn = "color" /\ ~kin.out.raises) =>
      /\ kin.out.rgba[4] = "0.4"
      /\ (0 <= ColorT.value /\ ColorT.value <= Fx(1)) =>
            LET t == ColorT.value
            IN  /\ 2 * t < Fx(1) =>
                      kin.out.rgba = << Blend(128, 255, 2 * t),
                                        Blend(128, 255, 2 * t),
                                        Blend(128, 0, 2 * t), "0.4" >>
                /\ 2 * t >= Fx(1) =>
                      kin.out.rgba = << Blend(255, 255, 2 * t - Fx(1)),
                                        Blend(255, 0, 2 * t - Fx(1)),
                                        Blend(0, 0, 2 * t - Fx(1)), "0.4" >>
                /\ t = 0 => kin.out.rgba = << 128, 128, 128, "0.4" >>
                /\ 2 * t = Fx(1) => kin.out.rgba = << 255, 255, 0, "0.4" >>
                /\ t = Fx(1) => kin.out.rgba = << 255, 0, 0, "0.4" >>

\* a colour strictly between yellow and red is returned
C12_Witness ==
    /\ kin.fn = "color"
    /\ ~kin.out.raises
    /\ 2 * ColorT.value > Fx(1)
    /\ ColorT.value < Fx(1)
    /\ kin.out.rgba[1] = 255
    /\ kin.out.rgba[2] \in 1..254

(***************************************************************************)
(* C13: the samples left out.                                              *)
(***************************************************************************)
\* the sample indices of a direct call whose tangent magnitude is below
\* 1e-10
DegenerateTs ==
    { k \in 0..(SAMPLES_PER_CURVE - 1) :
        Lt[TangentLength[_cubic_bezier_tangent(kin.p[1], kin.p[2], kin.p[3],
                                               kin.p[4], SampleT(k))], 1] }

\* C13: after _sample_cubic_curve on finite control points, no sample
\* comes from a t whose tangent magnitude is below 1e-10; when the segment
\* is kept, the samples are SAMPLES_PER_CURVE minus the number of such t,
\* in increasing order of t.
C13_SampleCount ==
    kin.fn = "sample" =>
      /\ \A j \in 1..Len(kin.out.samples) :
            kin.out.samples[j].index \notin DegenerateTs
      /\ kin.out.valid =>
            /\ Len(kin.out.samples) =
                  SAMPLES_PER_CURVE - Cardinality(DegenerateTs)
            /\ \A j \in 1..(Len(kin.out.samples) - 1) :
                  kin.out.samples[j].index < kin.out.samples[j + 1].index

(***************************************************************************)
(* C14: segments of fewer than two samples.                                *)
(***************************************************************************)
\* the sample indices of the segment q whose sample is valid
ValidIndices(q) ==
    { k \in 0..(SAMPLES_PER_CURVE - 1) : SampleAt(q[1], q[2], q[3], q[4], k).keep }

\* the segments of the pools of fewer than two valid samples, and those of
\* exactly one, evaluated once
FewSampleSegments == { q \in PoolSegments : Cardinality(ValidIndices(q)) < 2 }

LoneSampleSegments == { q \in PoolSegments : Cardinality(ValidIndices(q)) = 1 }

\* the start indices of the segments of the path being scanned or drawn
\* that have fewer than two valid samples, and of the others
FewSampleStarts ==
    { idx \in Range(treated) :
        ScanIteration(nodes, idx).points \in FewSampleSegments }

\* the absolute curvatures of the samples of the other segments
OtherCurvatures ==
    UNION { { smp.abs :
                smp \in Range(SampledCurve(ScanIteration(nodes, idx).points).samples) } :
            idx \in Range(treated) \ FewSampleStarts }

\* C14: a segment of fewer than two valid samples is not in the curve data
\* of its path, no polygon is filled for it, and the range of the path is
\* the range of the samples of the other segments.
C14_SegmentDropped ==
    pc \in { "scan", "draw" } =>
      /\ \A k \in 1..Len(curve_data_list) :
            curve_data_list[k].start \notin FewSampleStarts
      /\ \A f \in Range(FillsOf(si)) : f.start \notin FewSampleStarts
      /\ pc = "draw" =>
            /\ min_curvature = SetMin(OtherCurvatures)
            /\ max_curvature = SetMax(OtherCurvatures)

\* a path is drawn one of whose segments has a single valid sample, of a
\* curvature above the range of the path
C14_Witness ==
    /\ pc = "draw"
    /\ FillsOf(si) # << >>
    /\ \E idx \in FewSampleStarts :
          LET q == ScanIteration(nodes, idx).points
          IN  /\ q \in LoneSampleSegments
              /\ \E k \in ValidIndices(q) :
                    SampleAt(q[1], q[2], q[3], q[4], k).abs > max_curvature

(***************************************************************************)
(* C15: the perpendicular of a sample.                                     *)
(***************************************************************************)
\* the tangent at the sample smp of a direct call of _sample_cubic_curve
TangentOf(smp) ==
    _cubic_bezier_tangent(kin.p[1], kin.p[2], kin.p[3], kin.p[4],
                          SampleT(smp.index))

\* perp is (-tangentY, tangentX) / |tangent|, is not the zero vector, is
\* orthogonal to the tangent and has length 1.  The last two hold up to the
\* rounding of the coordinates of perp to 1 / Unit; the length is compared
\* for a tangent of length 1 or more, below which the rounding of the
\* tangent length itself is felt.
UnitPerp(perp, tangent) ==
    /\ perp = << Neg[Div[tangent[2], TangentLength[tangent]]],
                 Div[tangent[1], TangentLength[tangent]] >>
    /\ IsFinite[perp[1]] /\ IsFinite[perp[2]]
    /\ perp # << 0, 0 >>
    /\ Abs[tangent[1] * perp[1] + tangent[2] * perp[2]]
          <= Abs[tangent[1]] + Abs[tangent[2]]
    /\ TangentLength[tangent] >= Fx(1) =>
          Abs[perp[1] * perp[1] + perp[2] * perp[2] - Unit * Unit] <= 8 * Unit

\* C15: the perpendicular of every sample _sample_cubic_curve returns is
\* the tangent at the sample turned by 90 degrees and divided by its
\* length: a vector of length 1, orthogonal to the tangent, never zero.
C15_UnitPerp ==
    kin.fn = "sample" =>
      \A j \in 1..Len(kin.out.samples) :
        UnitPerp(kin.out.samples[j].perp, TangentOf(kin.out.samples[j]))

(***************************************************************************)
(* C16: draw_below keeps no state and changes none of its inputs.          *)
(***************************************************************************)
\* the earlier calls with the layer_data and the parameters of this one
SameInput ==
    { k \in 1..Len(history) : /\ history[k].layer_data = layer_data
                              /\ history[k].parameters = parameters }

\* C16: a call of draw_below that is over has made the calls on ctx that
\* every earlier call with the same layer_data and the same two parameter
\* values made, whatever was called in between; and no step of a call
\* changes layer_data or the stored parameters.
C16_NoStateKept ==
    /\ [](pc \in { "done", "raised" } =>
            \A k \in SameInput : /\ history[k].calls = ctx.calls
                                  /\ history[k].raised = (pc = "raised"))
    /\ [][(pc \notin { "done", "raised" } /\ pc' # "idle") =>
            (layer_data' = layer_data /\ parameters' = parameters)]_vars

\* a third call is over that has drawn what the first one drew, after a
\* second call with another scale_factor that drew something else
C16_Witness ==
    /\ pc = "done"
    /\ Len(history) = 2
    /\ 1 \in SameInput
    /\ history[2].layer_data = layer_data
    /\ history[2].parameters.scale_factor # parameters.scale_factor
    /\ history[2].calls # ctx.calls
    /\ Len(ctx.calls) > 2

(***************************************************************************)
(* C17: the ranges of the two parameters.                                  *)
(***************************************************************************)
\* C17: whatever values were stored and whatever set_parameter calls were
\* made, scale_factor lies in [0, 100] and exponent lies in [1, 5].
C17_ParameterRanges ==
    /\ 0 <= parameters.scale_factor /\ parameters.scale_factor <= 100
    /\ 1 <= parameters.exponent /\ parameters.exponent <= 5

(***************************************************************************)
(* C18: the closed flag of a path.                                         *)
(***************************************************************************)
\* C18: a segment whose four nodes wrap from the end of the node list to
\* its start is sampled only for a path whose closed flag is true; the
\* segments of an open path lie at indices i..i+3 with i + 3 <= n - 1.
C18_ClosedFlag ==
    pc \in { "scan", "draw" } =>
      \A idx \in Range(treated) :
        idx + 3 > Len(nodes) - 1 => layer_data.shapes[si].closed

(***************************************************************************)
(* C19: a straight cubic.                                                  *)
(***************************************************************************)
\* P1 - P0 = P2 - P1 = P3 - P2, and not zero
EvenlySpaced(q) ==
    /\ \A c \in 1..2 : /\ q[2][c] - q[1][c] = q[3][c] - q[2][c]
                        /\ q[3][c] - q[2][c] = q[4][c] - q[3][c]
    /\ q[2] # q[1]

\* C19: the samples of a cubic whose control points are evenly spaced on
\* a line all have curvature 0, and so tooth length 0 at every value of the
\* two parameters.
C19_StraightCubic ==
    (kin.fn = "sample" /\ EvenlySpaced(kin.p)) =>
      \A j \in 1..Len(kin.out.samples) :
        /\ kin.out.samples[j].abs = 0
        /\ kin.out.samples[j].signed = 0
        /\ \A pr \in ParamSpace : ToothLength(kin.out.samples[j], pr) = 0

(***************************************************************************)
(* C20: the tooth-length multiplier at the slider default.                 *)
(***************************************************************************)
\* the tooth length of a sample under a multiplier of scale
LengthAt(sample, scale) ==
    Mul[Mul[IF sample.signed > 0 THEN Fx(1)
            ELSE IF sample.signed < 0 THEN -Fx(1) ELSE 0,
            sample.abs],
        Fx(scale)]

\* the multiplier is scale, and the teeth filled have the lengths it gives
ScaleUsed(scale) ==
    /\ SCALE_FACTOR(parameters) = Fx(scale)
    /\ \A f \in Range(FillsOf(si)) :
          f.length = << LengthAt(SamplesOf(f)[1], scale),
                        LengthAt(SamplesOf(f)[2], scale) >>

\* C20 as stated: when scale_factor is 50, the multiplier SCALE the renderer
\* uses for the tooth lengths is 4000.
C20_ScaleAtDefault ==
    (pc = "draw" /\ parameters.scale_factor = 50) => ScaleUsed(4000)

\* C20 amended: when scale_factor is 50, the multiplier SCALE the renderer
\* uses for the tooth lengths is 14500 (2000 + 50 * 250).
C20_ScaleAtDefaultIs14500 ==
    (pc = "draw" /\ parameters.scale_factor = 50) => ScaleUsed(14500)

\* a tooth of non-zero length is filled while scale_factor is 50
C20_Witness ==
    /\ pc = "draw"
    /\ parameters.scale_factor = 50
    /\ \E f \in Range(FillsOf(si)) : f.length[1] # 0 /\ f.length[2] # 0

(***************************************************************************)
(* C21: malformed nodes.                                                   *)
(***************************************************************************)
\* node idx of the list is no record, has no x or y, or has a coordinate
\* that is no number
Malformed(node) == ~node.isdict \/ node.xy # "num"

\* the candidate segment at idx holds a malformed node
HoldsMalformed(ns, idx) == \E k \in 0..3 : Malformed(NodeAt(ns, idx, k))

\* the four nodes at idx are records of the types on-curve, off-curve,
\* off-curve, on-curve
TypesMatch(ns, idx) ==
    /\ \A k \in 0..3 : NodeAt(ns, idx, k).isdict
    /\ NodeAt(ns, idx, 0).type \in OnCurveTypes
    /\ NodeAt(ns, idx, 1).type = "o"
    /\ NodeAt(ns, idx, 2).type = "o"
    /\ NodeAt(ns, idx, 3).type \in OnCurveTypes

\* the index the scan examined after the one at position p of visited
ExaminedNext(p) == IF p < Len(visited) THEN visited[p + 1] ELSE i

\* C21: a candidate segment that holds a node that is no record, has no x
\* or y or has a coordinate that is no number is not extracted and the scan
\* goes on at the next index; when the scan is over, every run of four
\* well-formed nodes on-curve, off-curve, off-curve, on-curve of the list
\* has been extracted.
C21_MalformedSkipped ==
    pc = "scan" =>
      /\ \A p \in 1..Len(visited) :
            HoldsMalformed(nodes, visited[p]) =>
              /\ visited[p] \notin Range(treated)
              /\ ExaminedNext(p) = visited[p] + 1
      /\ i >= Len(nodes) =>
            \A idx \in 0..(Len(nodes) - 1) :
              ClaimedStart(nodes, idx) => idx \in Range(treated)

\* a scan is over that examined a candidate on-curve, off-curve, off-curve,
\* on-curve with a malformed node in it, and extracted a run after it
C21_Witness ==
    /\ pc = "scan"
    /\ i >= Len(nodes)
    /\ \E p \in 1..Len(visited) :
          /\ TypesMatch(nodes, visited[p])
          /\ HoldsMalformed(nodes, visited[p])
          /\ \E idx \in Range(treated) : idx > visited[p]

(***************************************************************************)
(* C22: the quarter circle.                                                *)
(***************************************************************************)
\* the samples of the call kin records
QuarterSamples == kin.out.samples

\* sample j has the largest absolute curvature of the segment
AttainsMax(j) ==
    \A k \in 1..Len(QuarterSamples) :
       ~DLess[QuarterSamples[j].abs, QuarterSamples[k].abs]

\* |t - c / 10| <= 1 / 10 for the t = index / (SAMPLES_PER_CURVE - 1) of
\* sample j
NearTenths(j, c) ==
    Abs[10 * QuarterSamples[j].index - c * (SAMPLES_PER_CURVE - 1)]
      <= SAMPLES_PER_CURVE - 1

\* every sample carries signed curvature of one and the same sign
OneSign ==
    \A j, k \in 1..Len(QuarterSamples) :
       Sign[QuarterSamples[j].signed[1]] = Sign[QuarterSamples[k].signed[1]]

NodeIndex(idx) == idx % Len(nodes)

\* the off-curve nodes of the segment that starts at idx
OffCurveOf(idx) == { NodeIndex(idx + 1), NodeIndex(idx + 2) }

\* C23: in one scan no node is examined twice as a start, no two segments
\* extracted start at the same node, and no off-curve node is a control
\* point of two segments, wrapping segments included.
C23_NoRunTwice ==
    pc \in { "scan", "draw" } =>
      /\ \A p, q \in 1..Len(visited) :
            p # q => NodeIndex(visited[p]) # NodeIndex(visited[q])
      /\ \A p, q \in 1..Len(treated) :
            p # q => /\ NodeIndex(treated[p]) # NodeIndex(treated[q])
                     /\ OffCurveOf(treated[p]) \cap OffCurveOf(treated[q]) = {}
      /\ \A p, q \in 1..Len(curve_data_list) :
            p # q => NodeIndex(curve_data_list[p].start)
                       # NodeIndex(curve_data_list[q].start)

\* a scan is over that extracted two segments, the second one wrapping
\* around the end of the list
C23_Witness ==
    /\ pc = "scan"
    /\ i >= Len(nodes)
    /\ Len(treated) = 2
    /\ Len(curve_data_list) = 2
    /\ treated[2] + 3 >= Len(nodes)

(***************************************************************************)
(* C24: the scan terminates.                                               *)
(***************************************************************************)
\* C24: every iteration of the scan raises the index by 1 or by 3, the scan
\* of a list makes at most len(nodes) iterations, and the draw_below call
\* returns.
C24_ScanTerminates ==
    /\ [][Len(visited') = Len(visited) + 1 => (i' = i + 1 \/ i' = i + 3)]_vars
    /\ [](pc = "scan" => Len(visited) <= Len(nodes))
    /\ <>(pc = "done")

\* a call has returned whose scan made len(nodes) iterations over a list of
\* MaxNodes nodes, one of them ended by the except clause
C24_Witness ==
    /\ pc = "done"
    /\ Len(nodes) = MaxNodes
    /\ Len(visited) = Len(nodes)
    /\ \E p \in 1..Len(visited) :
          /\ IsCubicAt(nodes, visited[p])
          /\ \E k \in 0..3 : NodeAt(nodes, visited[p], k).xy = "text"

(***************************************************************************)
(* C25: four different nodes.                                              *)
(***************************************************************************)
\* C25: every segment extracted is built from four different nodes of the
\* list, so a list of fewer than 4 nodes yields no segment.
C25_FourNodes ==
    pc \in { "scan", "draw" } =>
      \A p \in 1..Len(treated) :
        /\ Cardinality({ NodeIndex(treated[p] + k) : k \in 0..3 }) = 4
        /\ Len(nodes) >= 4

(***************************************************************************)
(* C26: save and restore.                                                  *)
(***************************************************************************)
\* the positions in ctx.calls of the calls of op
CallsOf(op) == { k \in 1..Len(ctx.calls) : ctx.calls[k].op = op }

\* C26: when a draw_below call is over, by a return or by an exception,
\* ctx.save and ctx.restore have been called equally often and the depth of
\* saved states is what it was; every fill comes after the save and before
\* the restore.
C26_SaveRestoreBalanced ==
    /\ pc \in { "done", "raised" } =>
          /\ ctx.depth = 0
          /\ Cardinality(CallsOf("save")) = Cardinality(CallsOf("restore"))
    /\ \A k \in CallsOf("fill") :
          /\ \E a \in CallsOf("save") : a < k
          /\ \A b \in CallsOf("restore") : k < b

(***************************************************************************)
(* C27: the curvature a sample carries.                                    *)
(***************************************************************************)
\* a = b as floats: never true of NaN
FloatEq(a, b) == a # NaN /\ b # NaN /\ a = b

\* the value _cubic_bezier_curvature returns at the t of sample smp of the
\* call kin records
CurvatureAt(smp) ==
    _cubic_bezier_curvature(kin.p[1], kin.p[2], kin.p[3], kin.p[4],
                            SampleT(smp.index))

\* C27: every sample emitted carries the negation of the value of the
\* curvature function at its t as signed curvature and the absolute value
\* of it as absolute curvature, |signed| = abs, and its tooth length is
\* signed * SCALE at every value of the parameters.
C27_SignedAndAbs ==
    kin.fn = "sample" =>
      \A j \in 1..Len(kin.out.samples) :
        LET smp == kin.out.samples[j]
        IN  /\ smp.signed = Neg[CurvatureAt(smp)]
            /\ smp.abs = FAbs[CurvatureAt(smp)]
            /\ FloatEq(FAbs[smp.signed], smp.abs)
            /\ \A pr \in ParamSpace :
                  FloatEq(ToothLength(smp, pr),
                          Mul[smp.signed, SCALE_FACTOR(pr)])

(***************************************************************************)
(* C28: one on-curve test for both ends.                                   *)
(***************************************************************************)
\* C28: the start node of every segment extracted passes the test the
\* extractor applies to an end node, and the end node passes the test it
\* applies to a start node.
C28_SameTestBothEnds ==
    pc \in { "scan", "draw" } =>
      \A p \in 1..Len(treated) :
        /\ EndIsOnCurve(NodeAt(nodes, treated[p], 0))
        /\ StartType(NodeAt(nodes, treated[p], 3)) \in OnCurveTypes

(***************************************************************************)
(* C29: the colour value needs no clamp.                                   *)
(***************************************************************************)
\* (abs_curv_i + abs_curv_next) / 2 of a polygon of the path being drawn
AvgCurvatureOf(f) == Div[Add[SamplesOf(f)[1].abs, SamplesOf(f)[2].abs], Fx(2)]

\* a <= b
Le(a, b) == a # NaN /\ b # NaN /\ a <= b

\* C29: for every tooth filled, the average absolute curvature of its two
\* samples lies between the minimum and the maximum of its path, the
\* colour value normalised from it lies in [0, 1] before the clamp, and the
\* clamp leaves it as it is.
C29_ClampIdle ==
    pc = "draw" =>
      \A f \in Range(FillsOf(si)) :
        LET avg == AvgCurvatureOf(f)
            t   == RawNormalised(avg, f.range[1], f.range[2])
        IN  /\ f.range = << min_curvature, max_curvature >>
            /\ Le(min_curvature, avg)
            /\ Le(avg, max_curvature)
            /\ Le(0, t)
            /\ Le(t, Fx(1))
            /\ FloatEq(ClampUnit(t), t)

(***************************************************************************)
(* C30: the scale factors at which the length guard discards teeth.        *)
(***************************************************************************)
\* neither tooth length of the pair (j, j + 1) of curve c of the path being
\* drawn is beyond the guard
GuardPasses(c, j) ==
    LET samples == curve_data_list[c].samples
    IN  /\ ~TooLong(ToothLength(samples[j], parameters))
        /\ ~TooLong(ToothLength(samples[j + 1], parameters))

\* an endpoint of the pair has the saturated curvature 1 or -1
SaturatedEnd(c, j) ==
    LET samples == curve_data_list[c].samples
    IN  samples[j].abs = Fx(MaxCurvature) \/ samples[j + 1].abs = Fx(MaxCurvature)

\* C30: with a scale_factor of at most 32 the length guard discards no
\* tooth (a tooth of length exactly 10000 is filled), and with a
\* scale_factor of at least 33 no tooth with an endpoint of curvature 1 or
\* -1 is filled.
C30_GuardThreshold ==
    pc = "draw" =>
      \A c \in 1..(ci - 1) :
        \A j \in 1..(Len(curve_data_list[c].samples) - 1) :
          /\ parameters.scale_factor <= 32 => GuardPasses(c, j)
          /\ (parameters.scale_factor <= 32 /\ parameters.exponent >= 1)
                => Emitted(c, j)
          /\ (parameters.scale_factor >= 33 /\ SaturatedEnd(c, j))
                => ~Emitted(c, j)

=============================================================================
